---- MODULE Spec2Model ----
(***************************************************************************)
(* The EVM bytecode interpreter of the actors repository: the dispatch     *)
(* engine (Machine::execute / Machine::step, interpreter/execution.rs) and *)
(* the control-flow instructions (interpreter/instructions/control.rs).    *)
(*                                                                         *)
(* A 256-bit word is a big-endian byte sequence without leading zero bytes *)
(* (the empty sequence is zero), so that words wider than the index type   *)
(* are represented exactly.  Positions in the bytecode are 0-based as in   *)
(* the source; the TLA+ sequence holding the bytes is 1-based.             *)
(***************************************************************************)
EXTENDS Integers, Sequences, FiniteSets, TLC

\* ------------------------------------------------------------------ bounds

\* Programs of halting, failing and storing instructions hold at most
\* MaxChunks chunks.
MaxChunks == 3
\* Programs over the control-flow opcodes hold at most MaxCtlChunks chunks.
MaxCtlChunks == 4
\* Exploration stops growing the operand stack at this depth.
MaxStack == 3

\* --------------------------------------------------------------- constants

OpCode_STOP == 0
OpCode_RETURNDATACOPY == 62
OpCode_MSTORE8 == 83
OpCode_JUMP == 86
OpCode_JUMPI == 87
OpCode_PC == 88
OpCode_JUMPDEST == 91
OpCode_PUSH1 == 96
OpCode_PUSH32 == 127
OpCode_RETURN == 243
OpCode_REVERT == 253
OpCode_INVALID == 254
OpCode_SELFDESTRUCT == 255
\* A byte no opcode is assigned to.
UnassignedByte == 12
\* Stack capacity.
STACK_LIMIT == 1024
\* Width in bytes of the index type the jump destination is converted to.
UsizeBytes == 4
\* Memory grows in whole words of this many bytes.
WORD_SIZE == 32

\* ------------------------------------------------------------------ values

None == [some |-> FALSE]
Some(v) == [some |-> TRUE, v |-> v]

Ok(v) == [ok |-> TRUE, v |-> v]
Err(kind) == [ok |-> FALSE, kind |-> kind]

RECURSIVE StripZeros(_)
StripZeros(bs) ==
    IF bs = <<>> THEN <<>>
    ELSE IF Head(bs) = 0 THEN StripZeros(Tail(bs))
    ELSE bs

\* U256::from_big_endian
U256_from_big_endian(bs) == StripZeros(bs)

RECURSIVE NatBytes(_)
NatBytes(n) == IF n = 0 THEN <<>> ELSE Append(NatBytes(n \div 256), n % 256)

\* U256::from(usize)
U256_from(n) == NatBytes(n)

RECURSIVE BytesNat(_)
BytesNat(w) ==
    IF w = <<>> THEN 0
    ELSE BytesNat(SubSeq(w, 1, Len(w) - 1)) * 256 + w[Len(w)]

U256_is_zero(w) == w = <<>>

\* U256 -> usize: fails when the value does not fit the index type.
U256_try_into_usize(w) ==
    IF Len(w) > UsizeBytes THEN None ELSE Some(BytesNat(w))

\* The low-order byte of a word.
U256_low_byte(w) == IF w = <<>> THEN 0 ELSE w[Len(w)]

Zeros(n) == [i \in 1..n |-> 0]

\* ---------------------------------------------------------------- bytecode

IsPush(b) == b >= OpCode_PUSH1 /\ b <= OpCode_PUSH32
\* Number of immediate bytes that follow opcode byte b.
PushLen(b) == IF IsPush(b) THEN b - OpCode_PUSH1 + 1 ELSE 0

\* A scan that does not skip push immediates: every 0x5b byte is a destination.
ScanJumpdests_NoSkip(B, i, acc) ==
    acc \cup {j \in i..(Len(B) - 1) : B[j + 1] = OpCode_JUMPDEST}

\* Bytecode::new: one scan from position i, skipping push immediates.
RECURSIVE ScanJumpdests(_, _, _)
ScanJumpdests(B, i, acc) ==
    IF i >= Len(B) THEN acc
    ELSE IF B[i + 1] = OpCode_JUMPDEST THEN ScanJumpdests(B, i + 1, acc \cup {i})
    ELSE ScanJumpdests(B, i + 1 + PushLen(B[i + 1]), acc)

Bytecode_new(B) == [code |-> B, jumpdest |-> ScanJumpdests(B, 0, {})]

valid_jump_destination(bc, offset) ==
    offset < Len(bc.code) /\ offset \in bc.jumpdest

\* ------------------------------------------------------------------ memory

RoundUpWord(n) == ((n + WORD_SIZE - 1) \div WORD_SIZE) * WORD_SIZE

\* memory::get_memory_region: no region and no growth for a zero size; otherwise
\* the memory is grown, zero-filled and word-aligned, to hold the region.
get_memory_region(mem, offset, size) ==
    IF U256_is_zero(size) THEN Ok([region |-> None, mem |-> mem])
    ELSE IF Len(offset) > UsizeBytes \/ Len(size) > UsizeBytes
    THEN Err("IllegalMemoryAccess")
    ELSE LET o == BytesNat(offset)
             s == BytesNat(size)
             grown == IF o + s > Len(mem)
                      THEN mem \o Zeros(RoundUpWord(o + s) - Len(mem))
                      ELSE mem
         IN  Ok([region |-> Some([offset |-> o, size |-> s]), mem |-> grown])

\* ------------------------------------------------- control.rs instructions

\* exit reading the region from the start of the memory.
exit_FromStart(mem, offset, size) ==
    LET r == get_memory_region(mem, offset, size)
    IN  IF ~r.ok THEN r
        ELSE Ok([mem |-> r.v.mem,
                 return_data |->
                    IF r.v.region.some
                    THEN SubSeq(r.v.mem, 1, r.v.region.v.size)
                    ELSE <<>>])

\* control::exit: the output of RETURN / REVERT.
exit(mem, offset, size) ==
    LET r == get_memory_region(mem, offset, size)
    IN  IF ~r.ok THEN r
        ELSE Ok([mem |-> r.v.mem,
                 return_data |->
                    IF r.v.region.some
                    THEN SubSeq(r.v.mem, r.v.region.v.offset + 1,
                                r.v.region.v.offset + r.v.region.v.size)
                    ELSE <<>>])

\* jump landing on the marker itself instead of the byte after it.
jump_NoSkip(bc, pc0, dest) ==
    LET dst == U256_try_into_usize(dest)
    IN  IF ~dst.some THEN Err("BadJumpDestination")
        ELSE IF ~valid_jump_destination(bc, dst.v) THEN Err("BadJumpDestination")
        ELSE Ok(dst.v)

\* jump converting the destination word by truncation to the index width.
jump_WrapsDest(bc, pc0, dest) ==
    LET low == IF Len(dest) > UsizeBytes
               THEN StripZeros(SubSeq(dest, Len(dest) - UsizeBytes + 1, Len(dest)))
               ELSE dest
    IN  IF ~valid_jump_destination(bc, BytesNat(low)) THEN Err("BadJumpDestination")
        ELSE Ok(BytesNat(low) + 1)

\* jump without the destination check.
jump_NoCheck(bc, pc0, dest) ==
    LET dst == U256_try_into_usize(dest)
    IN  IF ~dst.some THEN Err("BadJumpDestination")
        ELSE Ok(dst.v + 1)

\* jump checking the position it lands on instead of the destination.
jump_ChecksLanding(bc, pc0, dest) ==
    LET dst == U256_try_into_usize(dest)
    IN  IF ~dst.some THEN Err("BadJumpDestination")
        ELSE IF ~valid_jump_destination(bc, dst.v + 1) THEN Err("BadJumpDestination")
        ELSE Ok(dst.v + 1)

\* control::jump
jump(bc, pc0, dest) ==
    LET dst == U256_try_into_usize(dest)
    IN  IF ~dst.some THEN Err("BadJumpDestination")
        ELSE IF ~valid_jump_destination(bc, dst.v) THEN Err("BadJumpDestination")
        ELSE Ok(dst.v + 1)

\* jumpi checking the destination before looking at the condition.
jumpi_ValidatesFirst(bc, pc0, dest, test) ==
    LET dst == U256_try_into_usize(dest)
    IN  IF ~dst.some THEN Err("BadJumpDestination")
        ELSE IF ~valid_jump_destination(bc, dst.v) THEN Err("BadJumpDestination")
        ELSE IF ~U256_is_zero(test) THEN Ok(dst.v + 1)
        ELSE Ok(pc0 + 1)

\* control::jumpi
jumpi(bc, pc0, dest, test) ==
    IF ~U256_is_zero(test)
    THEN LET dst == U256_try_into_usize(dest)
         IN  IF ~dst.some THEN Err("BadJumpDestination")
             ELSE IF ~valid_jump_destination(bc, dst.v) THEN Err("BadJumpDestination")
             ELSE Ok(dst.v + 1)
    ELSE Ok(pc0 + 1)

\* returndatacopy returning at once when there is nothing to copy.
returndatacopy_SkipsEmpty(mem, rdata, mem_index, input_index, size) ==
    LET region == get_memory_region(mem, mem_index, size)
    IN  IF ~region.ok THEN [r |-> region, mem |-> mem]
        ELSE IF ~region.v.region.some THEN [r |-> Ok("unit"), mem |-> mem]
        ELSE
        LET grown == region.v.mem
            src == U256_try_into_usize(input_index)
            n == region.v.region.v.size
            o == region.v.region.v.offset
        IN  IF ~src.some \/ BytesNat(input_index) + n > Len(rdata)
            THEN [r |-> Err("IllegalMemoryAccess"), mem |-> grown]
            ELSE [r |-> Ok("unit"),
                  mem |-> [i \in 1..Len(grown) |->
                             IF i > o /\ i <= o + n
                             THEN rdata[src.v + (i - o)]
                             ELSE grown[i]]]

\* usize::checked_add
checked_add(a, b) ==
    IF Len(NatBytes(a + b)) > UsizeBytes THEN None ELSE Some(a + b)

\* returndatacopy that checks the source range before it asks for the
\* destination region, so that a failure leaves the memory as it was.
returndatacopy_SourceFirst(mem, rdata, mem_index, input_index, size) ==
    LET src == U256_try_into_usize(input_index)
        len == U256_try_into_usize(size)
        failed == [r |-> Err("IllegalMemoryAccess"), mem |-> mem]
    IN  IF ~src.some \/ ~len.some THEN failed
        ELSE IF src.v + len.v > Len(rdata) THEN failed
        ELSE LET region == get_memory_region(mem, mem_index, size)
             IN  IF ~region.ok THEN [r |-> region, mem |-> mem]
                 ELSE IF ~region.v.region.some
                 THEN [r |-> Ok("unit"), mem |-> region.v.mem]
                 ELSE LET o == region.v.region.v.offset
                          grown == region.v.mem
                      IN  [r |-> Ok("unit"),
                           mem |-> [i \in 1..Len(grown) |->
                                      IF i > o /\ i <= o + len.v
                                      THEN rdata[src.v + (i - o)]
                                      ELSE grown[i]]]

\* control::returndatacopy: the result and the memory it leaves, which
\* get_memory_region has already grown when a later check fails.
returndatacopy(mem, rdata, mem_index, input_index, size) ==
    LET region == get_memory_region(mem, mem_index, size)
    IN  IF ~region.ok THEN [r |-> region, mem |-> mem]
        ELSE
        LET grown == region.v.mem
            src == U256_try_into_usize(input_index)
            failed == [r |-> Err("IllegalMemoryAccess"), mem |-> grown]
        IN  IF ~src.some THEN failed
            ELSE IF src.v > Len(rdata) THEN failed
            ELSE
            LET n == IF region.v.region.some THEN region.v.region.v.size ELSE 0
                end == checked_add(src.v, n)
            IN  IF ~end.some THEN failed
                ELSE IF end.v > Len(rdata) THEN failed
                ELSE IF region.v.region.some
                THEN LET o == region.v.region.v.offset
                     IN  [r |-> Ok("unit"),
                          mem |-> [i \in 1..Len(grown) |->
                                     IF i > o /\ i <= o + n
                                     THEN rdata[src.v + (i - o)]
                                     ELSE grown[i]]]
                ELSE [r |-> Ok("unit"), mem |-> grown]

\* ----------------------------------------------------------------- address

\* U256::to_big_endian: the 32 bytes of a word.
to_big_endian(v) == Zeros(32 - Len(v)) \o v

\* A u64 is its big-endian bytes without leading zeros, like a word.
u64_to_be_bytes(id) == Zeros(8 - Len(id)) \o id
u64_from_be_bytes(bs) == StripZeros(bs)

\* fvm_shared Address::new_id and Address::id
FilecoinAddress_new_id(id) == [protocol |-> "ID", id |-> id]
FilecoinAddress_id(f) ==
    IF f.protocol = "ID" THEN Ok(f.id) ELSE Err("NonIDAddress")

\* try_from looking at the top 11 bytes only.
Address_try_from_ElevenBytes(v) ==
    LET bytes == to_big_endian(v)
    IN  IF ~(\A i \in 1..11 : bytes[i] = 0)
        THEN Err("BadAddress")
        ELSE Ok([evm |-> v])

\* impl TryFrom<U256> for Address
Address_try_from(v) ==
    LET bytes == to_big_endian(v)
    IN  IF ~(\A i \in 1..12 : bytes[i] = 0)
        THEN Err("BadAddress")
        ELSE Ok([evm |-> v])

\* from_id writing the id in little-endian order.
Address_from_id_LittleEndian(id) ==
    LET bytes == [i \in 1..32 |->
                    IF i = 13 THEN 255
                    ELSE IF i >= 25 THEN u64_to_be_bytes(id)[33 - i]
                    ELSE 0]
    IN  [evm |-> U256_from_big_endian(bytes)]

\* Address::from_id
Address_from_id(id) ==
    LET bytes == [i \in 1..32 |->
                    IF i = 13 THEN 255
                    ELSE IF i >= 25 THEN u64_to_be_bytes(id)[i - 24]
                    ELSE 0]
    IN  [evm |-> U256_from_big_endian(bytes)]

\* from_id_address keeping the low byte of the id only.
Address_from_id_address_LowByte(f) ==
    LET id == FilecoinAddress_id(f)
    IN  IF id.ok
        THEN Some(Address_from_id(IF id.v = <<>> THEN <<>>
                                  ELSE StripZeros(<<id.v[Len(id.v)]>>)))
        ELSE None

\* Address::from_id_address
Address_from_id_address(f) ==
    LET id == FilecoinAddress_id(f)
    IN  IF id.ok THEN Some(Address_from_id(id.v)) ELSE None

\* as_id_address that does not look at the padding.
Address_as_id_address_MarkerOnly(a) ==
    LET bytes == to_big_endian(a.evm)
    IN  IF bytes[13] # 255
        THEN None
        ELSE Some(FilecoinAddress_new_id(u64_from_be_bytes(SubSeq(bytes, 25, 32))))

\* Address::as_id_address
Address_as_id_address(a) ==
    LET bytes == to_big_endian(a.evm)
    IN  IF bytes[13] # 255 \/ ~(\A i \in 14..24 : bytes[i] = 0)
        THEN None
        ELSE Some(FilecoinAddress_new_id(u64_from_be_bytes(SubSeq(bytes, 25, 32))))

\* Address::as_evm_word
Address_as_evm_word(a) == a.evm

\* ---------------------------------------------------------------- dispatch

\* The bytes def_opcodes registers a handler for.
Registered ==
    (0..11) \cup (16..29) \cup {32} \cup (48..72) \cup (80..91)
    \cup (96..164) \cup (240..245) \cup {250, 253, 254, 255}

\* A decoder that rejects the bytes no opcode is assigned to.
OpCode_try_from_Rejects(b) ==
    IF b \in Registered THEN Ok(b) ELSE Err("UndefinedInstruction")

\* OpCode::try_from(u8)
OpCode_try_from(b) == Ok(b)

\* def_jmptable: 256 entries, UNDEFINED unless def_opcodes names the opcode.
jmptable(op) ==
    IF op \notin Registered THEN "UNDEFINED"
    ELSE IF IsPush(op) THEN "PUSH"
    ELSE CASE op = OpCode_STOP -> "STOP"
           [] op = OpCode_RETURNDATACOPY -> "RETURNDATACOPY"
           [] op = OpCode_MSTORE8 -> "MSTORE8"
           [] op = OpCode_JUMP -> "JUMP"
           [] op = OpCode_JUMPI -> "JUMPI"
           [] op = OpCode_PC -> "PC"
           [] op = OpCode_JUMPDEST -> "JUMPDEST"
           [] op = OpCode_RETURN -> "RETURN"
           [] op = OpCode_REVERT -> "REVERT"
           [] op = OpCode_INVALID -> "INVALID"
           [] op = OpCode_SELFDESTRUCT -> "SELFDESTRUCT"
           [] OTHER -> "intrinsic"

\* ------------------------------------------------------------------- state

VARIABLES
    bytecode,       \* Machine.bytecode: [code, jumpdest]
    pc,             \* Machine.pc
    reverted,       \* Machine.reverted
    stack,          \* ExecutionState.stack, top of stack last
    memory,         \* ExecutionState.memory
    output_data,    \* ExecutionState.output_data
    return_data,    \* ExecutionState.return_data
    selfdestroyed,  \* ExecutionState.selfdestroyed
    ctl,            \* "run": in the loop; "exit": the loop was left; "done"
    result,         \* what execute() returned
    last,           \* the last instruction executed and the state it started in
    steps,          \* the instructions executed: how many since the last taken
                    \* jump, and whether a jump was taken
    address,        \* an interpreter::address::Address, once one is constructed
    addr_last,      \* the last Address operation: its argument and what it returned
    precompile,     \* the last precompile call: context, input and what it returned
    market,         \* the market actor: its State, the epoch and the burnt funds
    market_log,     \* the last market call and what each deal was paid and came to
    partition,      \* a miner Partition
    partition_last, \* the last Partition call: its arguments and what it returned
    reward,         \* the reward actor: its balance and its State
    reward_log,     \* the last reward call: its arguments, what it returned and
                    \* the messages it sent
    bundler         \* a Bundler, and the tasks and the channel of its write_car

vars == <<bytecode, pc, reverted, stack, memory, output_data, return_data,
          selfdestroyed, ctl, result, last, steps, address, addr_last, precompile,
          market, market_log, partition, partition_last, reward, reward_log,
          bundler>>

\* The actors outside the EVM.
actors == <<market, market_log, partition, partition_last, reward, reward_log,
            bundler>>

\* What no modelled instruction writes: the return data is set by the CALL
\* family only, and addresses and precompiles are called from outside.
outside == <<return_data, address, addr_last, precompile, actors>>

\* ---------------------------------------------------------------- programs

PushData == {1, 2, 3, 5}
\* 2^64: too large for the index type on every build.
WideWord == <<1, 0, 0, 0, 0, 0, 0, 0, 0>>

\* Push of a word given by its bytes.
PushOf(bs) == <<OpCode_PUSH1 + Len(bs) - 1>> \o bs

\* A program is a concatenation of chunks: an opcode byte alone (a PUSH1 alone
\* takes the next chunk's first byte as its immediate, or is cut short by the
\* end of the code), or a push with its immediate bytes.
PushChunks == {PushOf(<<d>>) : d \in PushData}

\* Programs of halting, failing and storing instructions.
Chunks ==
    {<<b>> : b \in {OpCode_STOP, OpCode_MSTORE8, OpCode_PC, OpCode_JUMPDEST,
                    OpCode_RETURN, OpCode_REVERT, OpCode_INVALID,
                    OpCode_SELFDESTRUCT, OpCode_RETURNDATACOPY,
                    UnassignedByte}}
    \cup {PushOf(<<1>>)}

\* Programs of jumps, destinations and pushes.
CtlChunks ==
    {<<b>> : b \in {OpCode_JUMP, OpCode_JUMPI, OpCode_PC, OpCode_JUMPDEST,
                    OpCode_PUSH1}}
    \cup PushChunks
    \cup {PushOf(WideWord)}

RECURSIVE ProgramsOf(_, _)
ProgramsOf(chunks, n) ==
    IF n = 0 THEN {<<>>}
    ELSE LET shorter == ProgramsOf(chunks, n - 1)
         IN  shorter \cup {p \o c : p \in shorter, c \in chunks}

Programs == ProgramsOf(Chunks, MaxChunks) \cup ProgramsOf(CtlChunks, MaxCtlChunks)

\* The reward actor as constructed: no funds, and a State that has awarded
\* nothing.
RewardActor_new ==
    [balance |-> 0,
     st |-> [this_epoch_reward |-> 0, total_storage_power_reward |-> 0]]

\* Bundler::new: nothing added, write_car not called.
Bundler_new ==
    [added |-> <<>>, phase |-> "adding", index |-> <<>>, next |-> 0,
     channel |-> <<>>, tx |-> "none", sent |-> <<>>, received |-> <<>>,
     write_task |-> "none"]

\* The parties of the market: one client and two providers (miner actors).
Parties == {"CLIENT", "PROVIDER", "PROVIDER2"}

EPOCH_UNDEFINED == -1

\* The market State of setup(): no deal, empty balance tables, epoch 0.
MarketState_new ==
    [epoch |-> 0, next_id |-> 0, proposals |-> <<>>, states |-> <<>>,
     escrow |-> [a \in Parties |-> 0], locked |-> [a \in Parties |-> 0],
     deal_ops |-> {}, burnt |-> 0]

\* sectors() of record_skipped_faults.rs: the sector numbers of the six test
\* sectors, and a sector that add_sectors brings in later.
TestSectors == 1..6
LateSectors == {7}

\* PowerPair: raw and quality-adjusted power, added and negated by component.
PowerPair(raw, qa) == [raw |-> raw, qa |-> qa]
PowerPair_zero == PowerPair(0, 0)
PowerPair_add(a, b) == PowerPair(a.raw + b.raw, a.qa + b.qa)
PowerPair_neg(a) == PowerPair(0 - a.raw, 0 - a.qa)
PowerPair_sub(a, b) == PowerPair_add(a, PowerPair_neg(b))

\* power_for_sector: the raw power is the sector size (one unit); the
\* quality-adjusted power grows with the deal weights, which grow with the
\* sector number in sectors().
power_for_sector(n) == PowerPair(1, 10 + n)

RECURSIVE power_for_sectors(_)
power_for_sectors(S) ==
    IF S = {} THEN PowerPair_zero
    ELSE LET n == CHOOSE k \in S : TRUE
         IN  PowerPair_add(power_for_sector(n), power_for_sectors(S \ {n}))

\* Partition::new
Partition_new ==
    [sectors |-> {}, unproven |-> {}, faults |-> {}, recoveries |-> {},
     terminated |-> {}, live_power |-> PowerPair_zero,
     unproven_power |-> PowerPair_zero, faulty_power |-> PowerPair_zero,
     recovering_power |-> PowerPair_zero]

\* Partition::add_sectors: the sectors are live; sectors that are not proven
\* are unproven and their power waits for the first proof.
Partition_add_sectors(p, proven, S) ==
    LET power == power_for_sectors(S)
    IN  [p EXCEPT !.sectors = @ \cup S,
                  !.live_power = PowerPair_add(@, power),
                  !.unproven = IF proven THEN @ ELSE @ \cup S,
                  !.unproven_power = IF proven THEN @ ELSE PowerPair_add(@, power)]

\* setup(): Partition::new and add_sectors(proven) of sectors().
Partition_setup == Partition_add_sectors(Partition_new, TRUE, TestSectors)

\* Partition::add_faults: the sectors become faulty and leave the unproven
\* set; the power lost is their power less what of it was not proven yet.
Partition_add_faults(p, S) ==
    LET new_faulty_power == power_for_sectors(S)
        lost_unproven_power == power_for_sectors(S \cap p.unproven)
    IN  [p |-> [p EXCEPT !.faults = @ \cup S,
                         !.faulty_power = PowerPair_add(@, new_faulty_power),
                         !.unproven = @ \ S,
                         !.unproven_power = PowerPair_sub(@, lost_unproven_power)],
         power_delta |-> PowerPair_add(PowerPair_neg(new_faulty_power),
                                       lost_unproven_power),
         new_faulty_power |-> new_faulty_power]

\* Partition::remove_recoveries
Partition_remove_recoveries(p, S, power) ==
    [p EXCEPT !.recoveries = @ \ S,
              !.recovering_power = PowerPair_sub(@, power)]

\* Partition::record_faults: declared faults; those already faulty or
\* terminated are ignored and declared recoveries among them are retracted.
Partition_record_faults(p, S) ==
    IF ~(S \subseteq p.sectors) THEN [p |-> p, ret |-> Err("USR_ILLEGAL_ARGUMENT")]
    ELSE LET retracted == p.recoveries \cap S
             new_faults == (S \ p.terminated) \ p.faults
             added == Partition_add_faults(p, new_faults)
         IN  [p |-> Partition_remove_recoveries(added.p, retracted,
                                                power_for_sectors(retracted)),
              ret |-> Ok(new_faults)]

\* Partition::declare_faults_recovered: the faulty sectors among S that are
\* not recovering yet are recovering.
Partition_declare_faults_recovered(p, S) ==
    IF ~(S \subseteq p.sectors) THEN [p |-> p, ret |-> Err("USR_ILLEGAL_ARGUMENT")]
    ELSE LET recoveries == (S \cap p.faults) \ p.recoveries
         IN  [p |-> [p EXCEPT !.recoveries = @ \cup recoveries,
                              !.recovering_power =
                                  PowerPair_add(@, power_for_sectors(recoveries))],
              ret |-> Ok(recoveries)]

\* Partition::terminate_sectors: live sectors leave every other set and are
\* terminated.
Partition_terminate_sectors(p, S) ==
    IF ~(S \subseteq p.sectors \ p.terminated)
    THEN [p |-> p, ret |-> Err("USR_ILLEGAL_ARGUMENT")]
    ELSE [p |-> [p EXCEPT
                   !.terminated = @ \cup S,
                   !.faults = @ \ S,
                   !.recoveries = @ \ S,
                   !.unproven = @ \ S,
                   !.live_power = PowerPair_sub(@, power_for_sectors(S)),
                   !.faulty_power =
                       PowerPair_sub(@, power_for_sectors(S \cap p.faults)),
                   !.recovering_power =
                       PowerPair_sub(@, power_for_sectors(S \cap p.recoveries)),
                   !.unproven_power =
                       PowerPair_sub(@, power_for_sectors(S \cap p.unproven))],
          ret |-> Ok(S)]

\* record_skipped_faults that takes every skipped sector for a new fault.
Partition_record_skipped_faults_CountsAll(p, skipped) ==
    IF skipped = {}
    THEN [p |-> p,
          ret |-> Ok([power_delta |-> PowerPair_zero,
                      new_fault_power |-> PowerPair_zero,
                      retracted_recovery_power |-> PowerPair_zero,
                      has_new_faults |-> FALSE])]
    ELSE IF ~(skipped \subseteq p.sectors)
    THEN [p |-> p, ret |-> Err("USR_ILLEGAL_ARGUMENT")]
    ELSE LET retracted == p.recoveries \cap skipped
             retracted_power == power_for_sectors(retracted)
             added == Partition_add_faults(p, skipped)
         IN  [p |-> Partition_remove_recoveries(added.p, retracted, retracted_power),
              ret |-> Ok([power_delta |-> added.power_delta,
                          new_fault_power |-> added.new_faulty_power,
                          retracted_recovery_power |-> retracted_power,
                          has_new_faults |-> skipped # {}])]

\* Partition::record_skipped_faults: the sectors a window post skipped. No
\* sector skipped changes nothing; a sector outside the partition is an
\* error; the skipped sectors that are neither faulty nor terminated are the
\* new faults, and the skipped sectors that were recovering stop recovering.
Partition_record_skipped_faults(p, skipped) ==
    IF skipped = {}
    THEN [p |-> p,
          ret |-> Ok([power_delta |-> PowerPair_zero,
                      new_fault_power |-> PowerPair_zero,
                      retracted_recovery_power |-> PowerPair_zero,
                      has_new_faults |-> FALSE])]
    ELSE IF ~(skipped \subseteq p.sectors)
    THEN [p |-> p, ret |-> Err("USR_ILLEGAL_ARGUMENT")]
    ELSE LET retracted == p.recoveries \cap skipped
             retracted_power == power_for_sectors(retracted)
             new_faults == (skipped \ p.terminated) \ p.faults
             added == Partition_add_faults(p, new_faults)
         IN  [p |-> Partition_remove_recoveries(added.p, retracted, retracted_power),
              ret |-> Ok([power_delta |-> added.power_delta,
                          new_fault_power |-> added.new_faulty_power,
                          retracted_recovery_power |-> retracted_power,
                          has_new_faults |-> new_faults # {}])]

\* Machine::new over ExecutionState::new
InitWith(programs, datas) ==
    /\ bytecode \in {Bytecode_new(p) : p \in programs}
    /\ return_data \in datas
    /\ address = None
    /\ addr_last = [op |-> "none"]
    /\ precompile = [op |-> "none"]
    /\ market = MarketState_new
    /\ market_log = [op |-> "none", deals |-> <<>>, paid |-> <<>>, fate |-> <<>>]
    /\ partition = Partition_setup
    /\ partition_last = [op |-> "none"]
    /\ reward = RewardActor_new
    /\ reward_log = [op |-> "none"]
    /\ bundler = Bundler_new
    /\ pc = 0
    /\ reverted = FALSE
    /\ stack = <<>>
    /\ memory = <<>>
    /\ output_data = <<>>
    /\ selfdestroyed = None
    /\ ctl = "run"
    /\ result = [tag |-> "none"]
    /\ last = [op |-> "none", pc |-> 0, stack |-> <<>>, memory |-> <<>>,
               flow |-> "none", err |-> "none"]
    /\ steps = [n |-> 0, jumped |-> FALSE]

\* ExecutionState::new: `return_data: Default::default()`
InitOver(programs) == InitWith(programs, {<<>>})

Init == InitOver(Programs)

\* -------------------------------------------------------------------- steps

Code == bytecode.code

\* Machine::step: the handler the byte at pc is dispatched to.
Handler(b) ==
    LET op == OpCode_try_from(b)
    IN  IF op.ok THEN jmptable(op.v) ELSE "try_from"

\* One pass of the loop of Machine::execute reaches step() with this handler.
Fetched(h) ==
    /\ ctl = "run"
    /\ pc < Len(Code)
    /\ Handler(Code[pc + 1]) = h

\* What `last` records of a step: the handler, the state it started in, the
\* ControlFlow it returned ("Err" for an error) and the error it returned.
Snap(op, flow, err) ==
    [op |-> op, pc |-> pc, stack |-> stack, memory |-> memory, flow |-> flow,
     err |-> err]

\* Machine::execute: `match self.step()?` has run once more. The count starts
\* again at a taken jump.
Stepped(flow) ==
    IF flow = "Jump" THEN [n |-> 0, jumped |-> TRUE]
    ELSE [steps EXCEPT !.n = @ + 1]

Top(n) == stack[Len(stack) - n]
Popped(n) == SubSeq(stack, 1, Len(stack) - n)

\* An error of step() that the loop does not propagate.
Fail_Swallowed(op, kind) ==
    /\ last' = Snap(op, "Err", kind)
    /\ steps' = Stepped("Err")
    /\ UNCHANGED <<ctl, result>>

\* `step()?` returned an error: execute() returns it.
Fail(op, kind) ==
    /\ result' = [tag |-> "Err", kind |-> kind]
    /\ ctl' = "done"
    /\ last' = Snap(op, "Err", kind)
    /\ steps' = Stepped("Err")

\* ControlFlow::Continue without `self.pc += 1`.
Continue_Stays(op, newpc) ==
    /\ pc' = newpc
    /\ last' = Snap(op, "Continue", "none")
    /\ steps' = Stepped("Continue")
    /\ UNCHANGED <<ctl, result>>

\* ControlFlow::Continue
Continue(op, newpc) ==
    /\ pc' = newpc + 1
    /\ last' = Snap(op, "Continue", "none")
    /\ steps' = Stepped("Continue")
    /\ UNCHANGED <<ctl, result>>

\* ControlFlow::Jump
Jump(op, dest) ==
    /\ pc' = dest
    /\ last' = Snap(op, "Jump", "none")
    /\ steps' = Stepped("Jump")
    /\ UNCHANGED <<ctl, result>>

\* ControlFlow::Exit
Exit(op) ==
    /\ ctl' = "exit"
    /\ last' = Snap(op, "Exit", "none")
    /\ steps' = Stepped("Exit")
    /\ UNCHANGED <<pc, result>>

STOP ==
    /\ Fetched("STOP")
    /\ Exit("STOP")
    /\ UNCHANGED <<outside, bytecode, reverted, stack, memory, output_data, selfdestroyed>>

JUMPDEST ==
    /\ Fetched("JUMPDEST")
    /\ Continue("JUMPDEST", pc)
    /\ UNCHANGED <<outside, bytecode, reverted, stack, memory, output_data, selfdestroyed>>

INVALID ==
    /\ Fetched("INVALID")
    /\ Fail("INVALID", "InvalidInstruction")
    /\ UNCHANGED <<outside, bytecode, pc, reverted, stack, memory, output_data, selfdestroyed>>

\* The default entry of the jump table; a byte try_from rejects never gets there.
UNDEFINED ==
    /\ ctl = "run"
    /\ pc < Len(Code)
    /\ Handler(Code[pc + 1]) \in {"UNDEFINED", "try_from"}
    /\ LET op == OpCode_try_from(Code[pc + 1])
       IN  IF op.ok THEN Fail("UNDEFINED", "UndefinedInstruction")
           ELSE Fail("try_from", op.kind)
    /\ UNCHANGED <<outside, bytecode, pc, reverted, stack, memory, output_data, selfdestroyed>>

\* A push that refuses only a stack already past its capacity.
Stack_push_OffByOne(stk, w) ==
    IF Len(stk) > STACK_LIMIT THEN Err("StackOverflow") ELSE Ok(Append(stk, w))

\* Stack::push
Stack_push(stk, w) ==
    IF Len(stk) >= STACK_LIMIT THEN Err("StackOverflow") ELSE Ok(Append(stk, w))

\* Stack::pop
Stack_pop(stk) ==
    IF Len(stk) < 1 THEN Err("StackUnderflow")
    ELSE Ok([stack |-> SubSeq(stk, 1, Len(stk) - 1), word |-> stk[Len(stk)]])

\* Stack::peek: the word `depth` places below the top.
Stack_peek(stk, depth) ==
    IF depth >= Len(stk) THEN Err("StackUnderflow")
    ELSE Ok(stk[Len(stk) - depth])

\* The immediate bytes of the push at position p, zero-padded past the end.
PushImmediate(B, p) ==
    LET n == PushLen(B[p + 1])
    IN  [i \in 1..n |-> IF p + 1 + i <= Len(B) THEN B[p + 1 + i] ELSE 0]

\* PUSH1 .. PUSH32
PUSH ==
    /\ Fetched("PUSH")
    /\ Len(stack) < MaxStack
    /\ LET r == Stack_push(stack, U256_from_big_endian(PushImmediate(Code, pc)))
       IN  IF r.ok
           THEN /\ stack' = r.v
                /\ Continue("PUSH", pc + PushLen(Code[pc + 1]))
           ELSE /\ Fail("PUSH", r.kind)
                /\ UNCHANGED <<pc, stack>>
    /\ UNCHANGED <<outside, bytecode, reverted, memory, output_data, selfdestroyed>>

\* A PC that pushes the position of the next instruction.
instructions_PC_Next(stk, pc0) == Stack_push(stk, U256_from(pc0 + 1))

\* instructions::PC: pushes the program counter.
instructions_PC(stk, pc0) == Stack_push(stk, U256_from(pc0))

PC ==
    /\ Fetched("PC")
    /\ Len(stack) < MaxStack
    /\ LET r == instructions_PC(stack, pc)
       IN  IF r.ok
           THEN /\ stack' = r.v
                /\ Continue("PC", pc)
           ELSE /\ Fail("PC", r.kind)
                /\ UNCHANGED <<pc, stack>>
    /\ UNCHANGED <<outside, bytecode, reverted, memory, output_data, selfdestroyed>>

JUMP ==
    /\ Fetched("JUMP")
    /\ IF Len(stack) < 1
       THEN /\ Fail("JUMP", "StackUnderflow")
            /\ UNCHANGED <<pc, stack>>
       ELSE LET r == jump(bytecode, pc, Top(0))
            IN  /\ stack' = Popped(1)
                /\ IF r.ok
                   THEN Jump("JUMP", r.v)
                   ELSE /\ Fail("JUMP", r.kind)
                        /\ UNCHANGED pc
    /\ UNCHANGED <<outside, bytecode, reverted, memory, output_data, selfdestroyed>>

\* instructions::JUMPI: the destination when the jump is taken, None otherwise.
instructions_JUMPI(bc, pc0, dest, test) ==
    LET r == jumpi(bc, pc0, dest, test)
    IN  IF ~r.ok THEN r
        ELSE IF U256_is_zero(test) THEN Ok(None) ELSE Ok(Some(r.v))

JUMPI ==
    /\ Fetched("JUMPI")
    /\ IF Len(stack) < 2
       THEN /\ Fail("JUMPI", "StackUnderflow")
            /\ UNCHANGED <<pc, stack>>
       ELSE LET r == instructions_JUMPI(bytecode, pc, Top(0), Top(1))
            IN  /\ stack' = Popped(2)
                /\ IF ~r.ok
                   THEN /\ Fail("JUMPI", r.kind)
                        /\ UNCHANGED pc
                   ELSE IF r.v.some
                   THEN Jump("JUMPI", r.v.v)
                   ELSE Continue("JUMPI", pc)
    /\ UNCHANGED <<outside, bytecode, reverted, memory, output_data, selfdestroyed>>

MSTORE8 ==
    /\ Fetched("MSTORE8")
    /\ IF Len(stack) < 2
       THEN /\ Fail("MSTORE8", "StackUnderflow")
            /\ UNCHANGED <<pc, stack, memory>>
       ELSE LET r == get_memory_region(memory, Top(0), <<1>>)
            IN  /\ stack' = Popped(2)
                /\ IF r.ok
                   THEN /\ memory' = [r.v.mem EXCEPT ![r.v.region.v.offset + 1] =
                                          U256_low_byte(Top(1))]
                        /\ Continue("MSTORE8", pc)
                   ELSE /\ Fail("MSTORE8", r.kind)
                        /\ UNCHANGED <<pc, memory>>
    /\ UNCHANGED <<outside, bytecode, reverted, output_data, selfdestroyed>>

\* RETURNDATACOPY: {intrinsic}
RETURNDATACOPY ==
    /\ Fetched("RETURNDATACOPY")
    /\ IF Len(stack) < 3
       THEN /\ Fail("RETURNDATACOPY", "StackUnderflow")
            /\ UNCHANGED <<pc, stack, memory>>
       ELSE LET c == returndatacopy(memory, return_data, Top(0), Top(1), Top(2))
            IN  /\ stack' = Popped(3)
                /\ memory' = c.mem
                /\ IF c.r.ok
                   THEN Continue("RETURNDATACOPY", pc)
                   ELSE /\ Fail("RETURNDATACOPY", c.r.kind)
                        /\ UNCHANGED pc
    /\ UNCHANGED <<outside, bytecode, reverted, output_data, selfdestroyed>>

\* RETURN and REVERT: `instructions::RETURN(m)?; ...; Ok(ControlFlow::Exit)`
Halt(op, revert) ==
    /\ Fetched(op)
    /\ IF Len(stack) < 2
       THEN /\ Fail(op, "StackUnderflow")
            /\ UNCHANGED <<pc, stack, memory, output_data, reverted>>
       ELSE LET r == exit(memory, Top(0), Top(1))
            IN  /\ stack' = Popped(2)
                /\ IF r.ok
                   THEN /\ memory' = r.v.mem
                        /\ output_data' = r.v.return_data
                        /\ reverted' = IF revert THEN TRUE ELSE reverted
                        /\ Exit(op)
                   ELSE /\ Fail(op, r.kind)
                        /\ UNCHANGED <<pc, memory, output_data, reverted>>
    /\ UNCHANGED <<outside, bytecode, selfdestroyed>>

RETURN == Halt("RETURN", FALSE)

\* REVERT without `m.reverted = true`.
REVERT_NoFlag == Halt("REVERT", FALSE)

REVERT == Halt("REVERT", TRUE)

SELFDESTRUCT ==
    /\ Fetched("SELFDESTRUCT")
    /\ IF Len(stack) < 1
       THEN /\ Fail("SELFDESTRUCT", "StackUnderflow")
            /\ UNCHANGED <<pc, stack, selfdestroyed>>
       ELSE /\ stack' = Popped(1)
            /\ selfdestroyed' = Some(Top(0))
            /\ Exit("SELFDESTRUCT")
    /\ UNCHANGED <<outside, bytecode, reverted, memory, output_data>>

\* The loop left one byte before the end of the code.
EndOfCode_Early ==
    /\ ctl = "run"
    /\ pc + 1 >= Len(Code)
    /\ ctl' = "exit"
    /\ UNCHANGED <<outside, bytecode, pc, reverted, stack, memory, output_data,
                   selfdestroyed, result, last, steps>>

\* Machine::execute: `if self.pc >= self.bytecode.len() { break; }`
EndOfCode ==
    /\ ctl = "run"
    /\ pc >= Len(Code)
    /\ ctl' = "exit"
    /\ UNCHANGED <<outside, bytecode, pc, reverted, stack, memory, output_data,
                   selfdestroyed, result, last, steps>>

\* execute(): Machine::execute returned Ok(()), the Output is built.
ReturnOutput ==
    /\ ctl = "exit"
    /\ ctl' = "done"
    /\ result' = [tag |-> "Ok",
                  output |-> [reverted |-> reverted,
                              status_code |-> "Success",
                              output_data |-> output_data,
                              selfdestroyed |-> selfdestroyed]]
    /\ UNCHANGED <<outside, bytecode, pc, reverted, stack, memory, output_data,
                   selfdestroyed, last, steps>>

Next ==
    \/ STOP
    \/ JUMPDEST
    \/ INVALID
    \/ UNDEFINED
    \/ PUSH
    \/ PC
    \/ JUMP
    \/ JUMPI
    \/ MSTORE8
    \/ RETURNDATACOPY
    \/ RETURN
    \/ REVERT
    \/ SELFDESTRUCT
    \/ EndOfCode
    \/ ReturnOutput

Spec == Init /\ [][Next]_vars

\* ------------------------------------------------------------- properties

\* Position i starts an instruction when the code is decoded from position 0.
RECURSIVE IsInstrStart(_, _)
IsInstrStart(B, i) ==
    \/ i = 0
    \/ \E j \in 0..(i - 1) :
          /\ j < Len(B)
          /\ j + 1 + PushLen(B[j + 1]) = i
          /\ IsInstrStart(B, j)

\* Position p lies in the immediate bytes of a push instruction.
InPushData(B, p) ==
    \E j \in 0..(p - 1) :
       /\ j < Len(B)
       /\ IsPush(B[j + 1])
       /\ p <= j + PushLen(B[j + 1])
       /\ IsInstrStart(B, j)

\* What the specification calls a valid jump destination.
IsMarkerOutsidePushData(B, p) ==
    /\ p < Len(B)
    /\ B[p + 1] = OpCode_JUMPDEST
    /\ ~InPushData(B, p)

\* The word on top of a stack is a valid jump destination of the bytecode.
ValidDestWord(w) ==
    LET d == U256_try_into_usize(w)
    IN  d.some /\ valid_jump_destination(bytecode, d.v)

LastTop(n) == last.stack[Len(last.stack) - n]
LastPopped(n) == SubSeq(last.stack, 1, Len(last.stack) - n)
BadJump == [tag |-> "Err", kind |-> "BadJumpDestination"]

\* C1: a position p is a valid jump destination, and a jump to it is accepted,
\* if and only if p is inside the code, holds the JUMPDEST byte and is not in
\* the immediate bytes of a push; in [PUSH1, 0x5b, JUMPDEST] position 1 is
\* invalid and position 2 is valid.
C1_ValidJumpDestination ==
    /\ \A p \in 0..(Len(Code) + 1) :
          /\ valid_jump_destination(bytecode, p) <=> IsMarkerOutsidePushData(Code, p)
          /\ jump(bytecode, 0, U256_from(p)).ok <=> IsMarkerOutsidePushData(Code, p)
    /\ Code = <<OpCode_PUSH1, OpCode_JUMPDEST, OpCode_JUMPDEST>> =>
          /\ ~valid_jump_destination(bytecode, 1)
          /\ valid_jump_destination(bytecode, 2)

C1_Witness ==
    /\ Code = <<OpCode_PUSH1, OpCode_JUMPDEST, OpCode_JUMPDEST>>
    /\ ~valid_jump_destination(bytecode, 1)
    /\ valid_jump_destination(bytecode, 2)
    /\ last.op = "JUMPDEST"

\* C2: a JUMP to a valid destination d succeeds, leaves pc = d + 1 after the
\* whole loop pass and pops exactly one word; a JUMPI with a non-zero condition
\* and a valid d leaves pc = d + 1 and pops exactly two words.
C2_JumpToValidDestination ==
    /\ (last.op = "JUMP" /\ Len(last.stack) >= 1 /\ ValidDestWord(LastTop(0))) =>
          /\ last.flow = "Jump"
          /\ result.tag # "Err"
          /\ pc = BytesNat(LastTop(0)) + 1
          /\ stack = LastPopped(1)
    /\ (last.op = "JUMPI" /\ Len(last.stack) >= 2 /\ ~U256_is_zero(LastTop(1))
           /\ ValidDestWord(LastTop(0))) =>
          /\ last.flow = "Jump"
          /\ result.tag # "Err"
          /\ pc = BytesNat(LastTop(0)) + 1
          /\ stack = LastPopped(2)

C2_Witness ==
    /\ last.op = "JUMPI"
    /\ Len(last.stack) = 2
    /\ ~U256_is_zero(LastTop(1))
    /\ ValidDestWord(LastTop(0))
    /\ pc = BytesNat(LastTop(0)) + 1
    /\ stack = <<>>

\* C3: a JUMP to an invalid destination (not a JUMPDEST, a 0x5b byte in push
\* data, past the end of the code, too large for the index type), and a JUMPI
\* with a non-zero condition and such a destination, fail with
\* BadJumpDestination and no other error, the operands staying popped.
C3_JumpToInvalidDestination ==
    /\ (last.op = "JUMP" /\ Len(last.stack) >= 1 /\ ~ValidDestWord(LastTop(0))) =>
          /\ last.flow = "Err"
          /\ result = BadJump
          /\ stack = LastPopped(1)
    /\ (last.op = "JUMPI" /\ Len(last.stack) >= 2 /\ ~U256_is_zero(LastTop(1))
           /\ ~ValidDestWord(LastTop(0))) =>
          /\ last.flow = "Err"
          /\ result = BadJump
          /\ stack = LastPopped(2)

\* A JUMP to a 0x5b byte that is push data was refused.
C3_Witness ==
    /\ last.op = "JUMP"
    /\ Len(last.stack) >= 1
    /\ Len(LastTop(0)) = 1
    /\ LastTop(0)[1] < Len(Code)
    /\ Code[LastTop(0)[1] + 1] = OpCode_JUMPDEST
    /\ InPushData(Code, LastTop(0)[1])
    /\ result = BadJump
    /\ stack = LastPopped(1)

\* C4: a JUMPI whose condition is zero never jumps and never fails, whatever
\* its destination word: pc advances by one and two words are popped.
C4_JumpiZeroCondition ==
    (last.op = "JUMPI" /\ Len(last.stack) >= 2 /\ U256_is_zero(LastTop(1))) =>
        /\ last.flow = "Continue"
        /\ result.tag # "Err"
        /\ pc = last.pc + 1
        /\ stack = LastPopped(2)

\* A zero condition with a destination too large for the index type.
C4_Witness ==
    /\ last.op = "JUMPI"
    /\ Len(last.stack) >= 2
    /\ U256_is_zero(LastTop(1))
    /\ LastTop(0) = WideWord
    /\ pc = last.pc + 1

\* C5: the byte fetched as an opcode is never push data: every fetch is at an
\* instruction start, and a taken jump lands right after a valid JUMPDEST, at
\* an instruction start or at the end of the code.
C5_NoFetchInsidePushData ==
    /\ (ctl = "run" /\ pc < Len(Code)) =>
          IsInstrStart(Code, pc) /\ ~InPushData(Code, pc)
    /\ last.op # "none" =>
          IsInstrStart(Code, last.pc) /\ ~InPushData(Code, last.pc)
    /\ last.flow = "Jump" =>
          /\ pc >= 1
          /\ valid_jump_destination(bytecode, pc - 1)
          /\ pc <= Len(Code)
          /\ IsInstrStart(Code, pc)

\* A jump was taken in a program that holds push data.
C5_Witness ==
    /\ last.flow = "Jump"
    /\ \E p \in 0..(Len(Code) - 1) : InPushData(Code, p)
    /\ pc < Len(Code)

\* C6: the first error a handler returns is what execute() returns, at once:
\* nothing more is executed, pc stays at the failing instruction and no Output
\* is produced.
C6_ErrorAbortsExecute ==
    /\ (last.flow = "Err") <=> (result.tag = "Err")
    /\ last.flow = "Err" =>
          /\ ctl = "done"
          /\ result = [tag |-> "Err", kind |-> last.err]
          /\ pc = last.pc
          /\ ~ENABLED Next

\* An error after at least one successful step.
C6_Witness ==
    /\ result.tag = "Err"
    /\ last.err = "StackUnderflow"
    /\ last.pc > 0
    /\ last.pc + 1 < Len(Code)

ExitOps == {"STOP", "RETURN", "REVERT", "SELFDESTRUCT"}

\* C7: execute() returns Ok only after an exit instruction that completed or
\* with pc at or past the end of the code (an empty code executes nothing);
\* the Output then has status Success and the final output data and
\* self-destruct beneficiary.
C7_OkOnlyOnExitOrEnd ==
    /\ ctl = "exit" \/ result.tag = "Ok" =>
          \/ last.op \in ExitOps /\ last.flow = "Exit"
          \/ pc >= Len(Code)
    /\ result.tag = "Ok" =>
          /\ result.output.status_code = "Success"
          /\ result.output.output_data = output_data
          /\ result.output.selfdestroyed = selfdestroyed
          /\ Code = <<>> => last.op = "none"

\* Ok by SELFDESTRUCT in the middle of the code, the beneficiary reported.
C7_Witness ==
    /\ result.tag = "Ok"
    /\ last.op = "SELFDESTRUCT"
    /\ pc + 1 < Len(Code)
    /\ result.output.selfdestroyed.some

\* C8: Output.reverted is true exactly when a REVERT that completed halted the
\* execution, which is reported as Ok; [STOP] halts at once with reverted
\* false and empty output data.
C8_RevertedIffRevert ==
    /\ result.tag = "Ok" =>
          (result.output.reverted <=> (last.op = "REVERT" /\ last.flow = "Exit"))
    /\ (last.op = "REVERT" /\ last.flow = "Exit" /\ ctl = "done") => result.tag = "Ok"
    /\ (Code = <<OpCode_STOP>> /\ ctl = "done") =>
          /\ last.op = "STOP"
          /\ result.tag = "Ok"
          /\ result.output.reverted = FALSE
          /\ result.output.output_data = <<>>

C8_Witness ==
    /\ result.tag = "Ok"
    /\ result.output.reverted
    /\ last.op = "REVERT"

MaxStores == 2
StoreValues == {7, 9}
StoreOffsets == {0, 31, 40}
HaltSizes == {0, 1, 2, 33}
HaltOffsets == {<<0>>, <<31>>, <<40>>, WideWord}

\* [PUSH1 value, PUSH1 offset, MSTORE8]
StoreChunks ==
    {<<OpCode_PUSH1, v, OpCode_PUSH1, o, OpCode_MSTORE8>> :
        v \in StoreValues, o \in StoreOffsets}

\* [PUSH1 size, PUSH offset, RETURN or REVERT], or no halting instruction.
HaltChunks ==
    {<<OpCode_PUSH1, s>> \o PushOf(o) \o <<h>> :
        s \in HaltSizes, o \in HaltOffsets, h \in {OpCode_RETURN, OpCode_REVERT}}
    \cup {<<>>}

MemPrograms == {p \o h : p \in ProgramsOf(StoreChunks, MaxStores), h \in HaltChunks}

InitMem == InitOver(MemPrograms)

NextMem ==
    \/ PUSH
    \/ MSTORE8
    \/ RETURN
    \/ REVERT
    \/ EndOfCode
    \/ ReturnOutput

SpecMem == InitMem /\ [][NextMem]_vars

\* Byte i (from 0) of a memory read as if it were zero-filled past its end.
ByteOrZero(mem, i) == IF i < Len(mem) THEN mem[i + 1] ELSE 0

\* C9: a RETURN or REVERT that halts leaves as output data the memory bytes
\* [offset, offset + size), the memory having grown by zero bytes only, and
\* only when the region ends past its end; with size 0 it halts with empty
\* output data and the memory unchanged whatever the offset;
\* [PUSH1 0, PUSH1 0, REVERT] ends with reverted true and empty output data.
C9_HaltOutputIsMemoryRegion ==
    /\ (last.op \in {"RETURN", "REVERT"} /\ Len(last.stack) >= 2) =>
          LET offset == LastTop(0)
              size == LastTop(1)
          IN  /\ U256_is_zero(size) =>
                    /\ last.flow = "Exit"
                    /\ output_data = <<>>
                    /\ memory = last.memory
              /\ (~U256_is_zero(size) /\ last.flow = "Exit") =>
                    LET o == BytesNat(offset)
                        s == BytesNat(size)
                    IN  /\ Len(output_data) = s
                        /\ \A i \in 0..(s - 1) :
                              /\ output_data[i + 1] = memory[o + i + 1]
                              /\ output_data[i + 1] = ByteOrZero(last.memory, o + i)
                        /\ Len(memory) >= Len(last.memory)
                        /\ \A i \in 0..(Len(memory) - 1) :
                              memory[i + 1] = ByteOrZero(last.memory, i)
                        /\ o + s <= Len(last.memory) => memory = last.memory
              /\ result.tag = "Ok" =>
                    /\ result.output.output_data = output_data
                    /\ result.output.reverted = (last.op = "REVERT")
    /\ (Code = <<OpCode_PUSH1, 0, OpCode_PUSH1, 0, OpCode_REVERT>> /\ ctl = "done") =>
          /\ result.tag = "Ok"
          /\ result.output.reverted = TRUE
          /\ result.output.output_data = <<>>

\* A RETURN whose region starts in stored memory and ends past its end.
C9_Witness ==
    /\ last.op = "RETURN"
    /\ result.tag = "Ok"
    /\ LastTop(0) = <<31>>
    /\ LastTop(1) = <<2>>
    /\ Len(last.memory) = 32
    /\ Len(memory) = 64
    /\ result.output.output_data = <<9, 0>>

\* ---------------------------------------------------- return-data programs

MaxReturnData == 2
MaxCopyStores == 1
ReturnBytes == {5, 6}
ReturnDatas == UNION {[1..k -> ReturnBytes] : k \in 0..MaxReturnData}
CopySizes == {<<0>>, <<1>>, <<2>>, WideWord}
CopyStarts == {<<0>>, <<1>>, <<2>>, <<3>>, WideWord}
CopyTargets == {<<0>>, <<31>>, WideWord}

\* [PUSH size, PUSH start, PUSH mem_index, RETURNDATACOPY]
CopyChunks ==
    {PushOf(n) \o PushOf(i) \o PushOf(m) \o <<OpCode_RETURNDATACOPY>> :
        n \in CopySizes, i \in CopyStarts, m \in CopyTargets}

CopyPrograms ==
    {p \o c : p \in ProgramsOf(StoreChunks, MaxCopyStores), c \in CopyChunks}

\* The execution state a sub-call left its return data in.
InitCopy == InitWith(CopyPrograms, ReturnDatas)

NextCopy ==
    \/ PUSH
    \/ MSTORE8
    \/ RETURNDATACOPY
    \/ EndOfCode
    \/ ReturnOutput

SpecCopy == InitCopy /\ [][NextCopy]_vars

\* The source range [start, start + length) is not within the return data.
SourceOutOfBounds(rdata, start, length) ==
    \/ Len(start) > UsizeBytes
    \/ Len(length) > UsizeBytes
    \/ BytesNat(start) > Len(rdata)
    \/ BytesNat(start) + BytesNat(length) > Len(rdata)

\* C11: RETURNDATACOPY(mem_index, start, length) fails with
\* IllegalMemoryAccess whenever start or start + length is past the end of
\* the return data or does not fit the index type, also with length 0; when
\* it succeeds, memory[mem_index, mem_index + length) holds
\* return_data[start, start + length) and every other byte of the memory is
\* what it was, or zero where the memory has grown.
C11_ReturnDataCopyBounds ==
    (last.op = "RETURNDATACOPY" /\ Len(last.stack) >= 3) =>
        LET mem_index == LastTop(0)
            start == LastTop(1)
            length == LastTop(2)
        IN  /\ SourceOutOfBounds(return_data, start, length) =>
                  /\ last.flow = "Err"
                  /\ result = [tag |-> "Err", kind |-> "IllegalMemoryAccess"]
            /\ last.flow = "Err" => last.err = "IllegalMemoryAccess"
            /\ last.flow = "Continue" =>
                  /\ ~SourceOutOfBounds(return_data, start, length)
                  /\ Len(memory) >= Len(last.memory)
                  /\ U256_is_zero(length) => memory = last.memory
                  /\ ~U256_is_zero(length) =>
                        LET o == BytesNat(mem_index)
                            s == BytesNat(start)
                            n == BytesNat(length)
                        IN  /\ Len(memory) >= o + n
                            /\ \A i \in 0..(Len(memory) - 1) :
                                  memory[i + 1] =
                                     IF i >= o /\ i < o + n
                                     THEN return_data[s + (i - o) + 1]
                                     ELSE ByteOrZero(last.memory, i)

\* Nothing to copy, from a start past the end of the return data: refused.
C11_Witness ==
    /\ last.op = "RETURNDATACOPY"
    /\ Len(last.stack) = 3
    /\ U256_is_zero(LastTop(2))
    /\ Len(LastTop(1)) = 1
    /\ LastTop(1)[1] > Len(return_data)
    /\ Len(return_data) > 0
    /\ result = [tag |-> "Err", kind |-> "IllegalMemoryAccess"]

\* ------------------------------------------------------ the jump programs

\* [PUSH1 0x02, JUMP, JUMPDEST, JUMPDEST]
JumpToTwo == <<OpCode_PUSH1, 2, OpCode_JUMP, OpCode_JUMPDEST, OpCode_JUMPDEST>>
\* [PUSH1 0x03, JUMP, JUMPDEST, JUMPDEST]
JumpToThree == <<OpCode_PUSH1, 3, OpCode_JUMP, OpCode_JUMPDEST, OpCode_JUMPDEST>>

\* C12 as stated: [PUSH1 0x02, JUMP, JUMPDEST, JUMPDEST] halts without error
\* and without reverting, with an empty stack, its JUMP landing pc at 3.
C12_AsStated ==
    /\ (Code = JumpToTwo /\ last.op = "JUMP") =>
          /\ last.flow = "Jump"
          /\ pc = 3
          /\ stack = <<>>
    /\ (Code = JumpToTwo /\ ctl = "done") =>
          /\ result.tag = "Ok"
          /\ ~result.output.reverted
          /\ stack = <<>>

\* C12: in [PUSH1 0x02, JUMP, JUMPDEST, JUMPDEST] byte 2 is the JUMP opcode
\* itself, so the JUMP fails with BadJumpDestination, its operand consumed and
\* pc left at 2, and execute() returns that error; the same program with
\* destination 3, the first JUMPDEST, halts without error and without
\* reverting, with an empty stack, its JUMP landing pc at 4.
C12_JumpProgram ==
    /\ Code = JumpToTwo => ~valid_jump_destination(bytecode, 2)
    /\ (Code = JumpToTwo /\ last.op = "JUMP") =>
          /\ last.flow = "Err"
          /\ result = BadJump
          /\ pc = 2
          /\ stack = <<>>
          /\ ctl = "done"
    /\ (Code = JumpToTwo /\ ctl = "done") => last.op = "JUMP"
    /\ (Code = JumpToThree /\ last.op = "JUMP") =>
          /\ last.flow = "Jump"
          /\ pc = 4
          /\ stack = <<>>
    /\ (Code = JumpToThree /\ ctl = "done") =>
          /\ result.tag = "Ok"
          /\ ~result.output.reverted
          /\ stack = <<>>
          /\ pc = 5

\* The JUMP of [PUSH1 0x02, JUMP, JUMPDEST, JUMPDEST] has been refused.
C12_Witness ==
    /\ Code = JumpToTwo
    /\ last.op = "JUMP"
    /\ last.stack = <<U256_from(2)>>
    /\ result = BadJump
    /\ stack = <<>>

\* -------------------------------------------------------- stack operations

\* Pushes choose among StackWords below this depth, and push one word above.
MaxMixed == 2
\* Peeks look at most this deep.
MaxPeek == 2
StackWords == {<<1>>, <<2>>}

\* A stack on its own: the machine stays as constructed over an empty code.
InitStack == InitWith({<<>>}, {<<>>})

StackStep(op, r) ==
    last' = [op |-> op, pc |-> pc, stack |-> stack, memory |-> memory,
             flow |-> IF r.ok THEN "Continue" ELSE "Err",
             err |-> IF r.ok THEN "none" ELSE r.kind]

StackPush ==
    /\ \E w \in IF Len(stack) < MaxMixed THEN StackWords ELSE {<<1>>} :
          LET r == Stack_push(stack, w)
          IN  /\ stack' = IF r.ok THEN r.v ELSE stack
              /\ StackStep("push", r)
    /\ UNCHANGED <<outside, bytecode, pc, reverted, memory, output_data,
                   selfdestroyed, ctl, result, steps>>

StackPop ==
    /\ LET r == Stack_pop(stack)
       IN  /\ stack' = IF r.ok THEN r.v.stack ELSE stack
           /\ StackStep("pop", r)
    /\ UNCHANGED <<outside, bytecode, pc, reverted, memory, output_data,
                   selfdestroyed, ctl, result, steps>>

StackPeek ==
    /\ \E depth \in 0..MaxPeek : StackStep("peek", Stack_peek(stack, depth))
    /\ UNCHANGED <<outside, bytecode, pc, reverted, stack, memory, output_data,
                   selfdestroyed, ctl, result, steps>>

NextStack ==
    \/ StackPush
    \/ StackPop
    \/ StackPeek

SpecStack == InitStack /\ [][NextStack]_vars

\* C13: the stack always holds between 0 and 1024 words; a push onto 1024
\* words fails with StackOverflow, a pop of an empty stack and a peek below
\* the last word fail with StackUnderflow, and a failing operation leaves the
\* stack as it was; no operation fails otherwise.
C13_StackBounds ==
    /\ Len(stack) >= 0
    /\ Len(stack) <= STACK_LIMIT
    /\ last.op = "push" =>
          /\ (last.flow = "Err") <=> (Len(last.stack) = STACK_LIMIT)
          /\ last.flow = "Err" => last.err = "StackOverflow"
          /\ last.flow = "Continue" =>
                /\ Len(stack) = Len(last.stack) + 1
                /\ SubSeq(stack, 1, Len(last.stack)) = last.stack
    /\ last.op = "pop" =>
          /\ (last.flow = "Err") <=> (Len(last.stack) = 0)
          /\ last.flow = "Err" => last.err = "StackUnderflow"
          /\ last.flow = "Continue" => stack = LastPopped(1)
    /\ last.op = "peek" =>
          /\ last.flow = "Err" =>
                /\ last.err = "StackUnderflow"
                /\ Len(last.stack) <= MaxPeek
          /\ Len(last.stack) = 0 => last.flow = "Err"
          /\ Len(last.stack) > MaxPeek => last.flow = "Continue"
    /\ last.flow = "Err" => stack = last.stack

\* A push onto a full stack was refused and the stack is still full.
C13_Witness ==
    /\ last.op = "push"
    /\ last.err = "StackOverflow"
    /\ Len(stack) = STACK_LIMIT
    /\ stack[1] = <<2>>

\* ------------------------------------------------------- the PC instruction

\* C14: PC pushes the position of the PC opcode itself, the program counter
\* before it is incremented; the stack grows by exactly that one word and the
\* program counter advances by one.
C14_PcPushesOwnPosition ==
    last.op = "PC" =>
        /\ Code[last.pc + 1] = OpCode_PC
        /\ Len(last.stack) < STACK_LIMIT => last.flow = "Continue"
        /\ last.flow = "Continue" =>
              /\ Len(stack) = Len(last.stack) + 1
              /\ SubSeq(stack, 1, Len(last.stack)) = last.stack
              /\ BytesNat(stack[Len(stack)]) = last.pc
              /\ stack[Len(stack)] = U256_from_big_endian(NatBytes(last.pc))
              /\ pc = last.pc + 1

\* A PC that is not the first instruction, on a stack that is not empty.
C14_Witness ==
    /\ last.op = "PC"
    /\ last.pc = 2
    /\ Len(last.stack) = 1
    /\ stack = Append(last.stack, <<2>>)
    /\ pc = 3

\* --------------------------------------------------------------- addresses

\* Words have at most MaxSetBytes non-zero bytes, at the ProbePositions.
MaxSetBytes == 3
ProbePositions == {0, 11, 12, 13, 23, 24, 31}
ProbeBytes == {1, 250, 255}

\* The word with byte f[p] at position p (from 0) and zero elsewhere.
WordWith(f) ==
    U256_from_big_endian([i \in 1..32 |-> IF (i - 1) \in DOMAIN f THEN f[i - 1] ELSE 0])

AddrWords ==
    {WordWith(f) :
        f \in UNION {[P -> ProbeBytes] :
                        P \in {Q \in SUBSET ProbePositions : Cardinality(Q) <= MaxSetBytes}}}

\* Actor ids, from 0 to above 2^56.
ActorIds ==
    {u64_from_be_bytes(<<a, 0, 0, 0, 0, 0, b, c>>) : a, b, c \in {0, 1, 255}}

FilAddrs ==
    {FilecoinAddress_new_id(id) : id \in ActorIds}
    \cup {[protocol |-> "Secp256k1", payload |-> <<1>>]}

AddressOnly ==
    UNCHANGED <<bytecode, pc, reverted, stack, memory, output_data, return_data,
                selfdestroyed, ctl, result, last, steps, precompile, actors>>

TryFrom ==
    /\ \E v \in AddrWords :
          LET r == Address_try_from(v)
          IN  /\ address' = IF r.ok THEN Some(r.v) ELSE None
              /\ addr_last' = [op |-> "try_from", arg |-> v, ret |-> r]
    /\ AddressOnly

FromId ==
    /\ \E id \in ActorIds :
          LET a == Address_from_id(id)
          IN  /\ address' = Some(a)
              /\ addr_last' = [op |-> "from_id", arg |-> id, ret |-> a]
    /\ AddressOnly

FromIdAddress ==
    /\ \E f \in FilAddrs :
          LET r == Address_from_id_address(f)
          IN  /\ address' = r
              /\ addr_last' = [op |-> "from_id_address", arg |-> f, ret |-> r]
    /\ AddressOnly

AsIdAddress ==
    /\ address.some
    /\ addr_last' = [op |-> "as_id_address", arg |-> address.v,
                     ret |-> Address_as_id_address(address.v)]
    /\ UNCHANGED address
    /\ AddressOnly

AsEvmWord ==
    /\ address.some
    /\ addr_last' = [op |-> "as_evm_word", arg |-> address.v,
                     ret |-> Address_as_evm_word(address.v)]
    /\ UNCHANGED address
    /\ AddressOnly

NextAddress ==
    \/ TryFrom
    \/ FromId
    \/ FromIdAddress
    \/ AsIdAddress
    \/ AsEvmWord

SpecAddress == InitWith({<<>>}, {<<>>}) /\ [][NextAddress]_vars

\* A word whose value is below 2^160: its top 12 big-endian bytes are zero.
TopTwelveZero(v) == Len(v) <= 20

\* C15: Address::try_from(word) succeeds if and only if the top 12 bytes of
\* the word are zero, and fails with BadAddress otherwise; as_evm_word of the
\* Address gives back the identical word.
C15_AddressTryFrom ==
    /\ addr_last.op = "try_from" =>
          /\ addr_last.ret.ok <=> TopTwelveZero(addr_last.arg)
          /\ ~addr_last.ret.ok =>
                /\ addr_last.ret.kind = "BadAddress"
                /\ address = None
          /\ addr_last.ret.ok =>
                /\ address = Some(addr_last.ret.v)
                /\ Address_as_evm_word(addr_last.ret.v) = addr_last.arg
    /\ addr_last.op = "as_evm_word" =>
          /\ TopTwelveZero(addr_last.ret)
          /\ Address_try_from(addr_last.ret) = Ok(addr_last.arg)

\* A word whose only non-zero byte among the top 12 is the last of them.
C15_Witness ==
    /\ addr_last.op = "try_from"
    /\ Len(addr_last.arg) = 21
    /\ addr_last.arg[2] = 255
    /\ addr_last.ret = Err("BadAddress")

\* C16: Address::from_id(id) gives, for every id, a word whose top 12 bytes
\* are zero, which Address::try_from accepts, and whose as_id_address is the
\* ID address of the same id.
C16_FromIdRoundTrip ==
    addr_last.op = "from_id" =>
        /\ TopTwelveZero(addr_last.ret.evm)
        /\ Address_try_from(addr_last.ret.evm) = Ok(addr_last.ret)
        /\ Address_as_id_address(addr_last.ret) =
              Some(FilecoinAddress_new_id(addr_last.arg))
        /\ address = Some(addr_last.ret)

\* An id above 2^56 whose bytes are not a palindrome.
C16_Witness ==
    /\ addr_last.op = "from_id"
    /\ addr_last.arg = <<255, 0, 0, 0, 0, 0, 0, 1>>
    /\ Len(addr_last.ret.evm) = 20
    /\ addr_last.ret.evm[1] = 255

\* The word of an Address is in ID form: marker 0xff at byte 12 and zeros at
\* bytes 13..23.
IsIdForm(w) ==
    /\ Len(w) = 20
    /\ w[1] = 255
    /\ \A i \in 2..12 : w[i] = 0

\* C17: as_id_address returns Some exactly when byte 12 of the word is 0xff
\* and bytes 13..23 are zero, the id being the big-endian value of bytes
\* 24..31; with a wrong marker, non-zero padding or both it returns None.
C17_AsIdAddress ==
    addr_last.op = "as_id_address" =>
        LET w == addr_last.arg.evm
        IN  /\ TopTwelveZero(w)
            /\ addr_last.ret.some <=> IsIdForm(w)
            /\ addr_last.ret.some =>
                  /\ addr_last.ret.v.protocol = "ID"
                  /\ u64_to_be_bytes(addr_last.ret.v.id) = SubSeq(w, 13, 20)
            /\ ~IsIdForm(w) => addr_last.ret = None

\* The right marker over padding that is not zero.
C17_Witness ==
    /\ addr_last.op = "as_id_address"
    /\ Len(addr_last.arg.evm) = 20
    /\ addr_last.arg.evm[1] = 255
    /\ addr_last.arg.evm[12] = 1
    /\ addr_last.ret = None

\* C18: when as_id_address of an Address a returns Some(f), from_id_address(f)
\* returns Some(a).
C18_IdAddressInverse ==
    (addr_last.op = "as_id_address" /\ addr_last.ret.some) =>
        Address_from_id_address(addr_last.ret.v) = Some(addr_last.arg)

\* An Address made by try_from whose id takes two bytes.
C18_Witness ==
    /\ addr_last.op = "as_id_address"
    /\ addr_last.ret.some
    /\ addr_last.ret.v.id = <<250, 0, 0, 0, 0, 0, 0, 1>>
    /\ address = Address_from_id_address(addr_last.ret.v)

\* -------------------------------------------------------------- precompiles

\* fvm_ipld_encoding::DAG_CBOR
DAG_CBOR == 113
\* Number of parameter words call_actor reads before the address and payload.
CallActorParams == 6

Drop(bs, n) == SubSeq(bs, n + 1, Len(bs))

\* The first len bytes of input, padded with zeros on the right.
read_right_pad(input, len) ==
    [i \in 1..len |-> IF i <= Len(input) THEN input[i] ELSE 0]

\* The k-th 32-byte word a U256Reader gives (from 0).
U256Reader_next_padded(input, k) == read_right_pad(Drop(input, 32 * k), 32)
U256Reader_remaining_slice(input, k) == Drop(input, 32 * k)

\* Parameter::<uN>::try_from: the low n bytes of a word whose other bytes
\* are zero.
Parameter_try_from(word, n) ==
    IF \E i \in 1..(32 - n) : word[i] # 0
    THEN Err("InvalidInput")
    ELSE Ok(StripZeros(SubSeq(word, 32 - n + 1, 32)))

\* SendFlags::from_bits: READ_ONLY is bit 0 and the only flag.
SendFlags_from_bits(bits) ==
    IF bits = <<>> THEN Some({})
    ELSE IF bits = <<1>> THEN Some({"READ_ONLY"})
    ELSE None
SendFlags_read_only(flags) == "READ_ONLY" \in flags

\* fvm_shared Address::from_bytes, for ID addresses below 128: the protocol
\* byte 0 and a one-byte varint; the other inputs drawn are not addresses.
FilecoinAddress_from_bytes(bs) ==
    IF Len(bs) = 2 /\ bs[1] = 0 /\ bs[2] < 128
    THEN Ok(FilecoinAddress_new_id(StripZeros(<<bs[2]>>)))
    ELSE Err("InvalidPayload")

\* U256::to_bytes
U256_to_bytes(v) == to_big_endian(v)

Rejected(kind, chunks) ==
    [ret |-> Err(kind), chunks_read |-> chunks, sent |-> None]

\* The read-only check that never rejects.
send_needs_read_only_Never(flags, ctx) == FALSE

\* read only is required to be set on send
send_needs_read_only(flags, ctx) ==
    ~SendFlags_read_only(flags) /\ ctx.is_readonly

\* The codec check that lets every codec pass.
codec_supported_Any(codec) == TRUE

\* TODO only CBOR for now
codec_supported(codec) == BytesNat(codec) = DAG_CBOR

\* The output with the data padded to whole words.
call_actor_output_Padded(host) ==
    LET exit_code == IF host.ok THEN <<>> ELSE U256_from(host.exit_code)
    IN  U256_to_bytes(exit_code)
        \o U256_to_bytes(U256_from(DAG_CBOR))
        \o U256_to_bytes(U256_from(4 * 32))
        \o U256_to_bytes(U256_from(Len(host.data)))
        \o read_right_pad(host.data, RoundUpWord(Len(host.data)))

\* Build Output: the exit code of a failed send is its u32 value as a word.
call_actor_output(host) ==
    LET exit_code == IF host.ok THEN <<>> ELSE U256_from(host.exit_code)
    IN  U256_to_bytes(exit_code)
        \o U256_to_bytes(U256_from(DAG_CBOR))
        \o U256_to_bytes(U256_from(4 * 32))
        \o U256_to_bytes(U256_from(Len(host.data)))
        \o host.data

\* call_actor that sends the message and looks at the codec afterwards.
call_actor_params_SendsFirst(input, ctx, host) ==
    LET method == Parameter_try_from(U256Reader_next_padded(input, 0), 8)
        value == U256_from_big_endian(U256Reader_next_padded(input, 1))
        bits == Parameter_try_from(U256Reader_next_padded(input, 2), 8)
        flags == SendFlags_from_bits(bits.v)
        codec == Parameter_try_from(U256Reader_next_padded(input, 3), 8)
        address_size == Parameter_try_from(U256Reader_next_padded(input, 4), 4)
        send_data_size == Parameter_try_from(U256Reader_next_padded(input, 5), 4)
        asize == BytesNat(address_size.v)
        dsize == BytesNat(send_data_size.v)
        bytes == read_right_pad(U256Reader_remaining_slice(input, CallActorParams),
                                dsize + asize)
        input_data == SubSeq(bytes, 1, dsize)
        to == FilecoinAddress_from_bytes(SubSeq(bytes, dsize + 1, dsize + asize))
        message == [to |-> to.v, method |-> method.v, params |-> input_data,
                    value |-> value, gas_limit |-> ctx.gas_limit, flags |-> flags.v]
        output == call_actor_output(host)
    IN  IF ~method.ok THEN Rejected("InvalidInput", 1)
        ELSE IF ~bits.ok THEN Rejected("InvalidInput", 3)
        ELSE IF ~flags.some THEN Rejected("InvalidInput", 3)
        ELSE IF send_needs_read_only(flags.v, ctx)
             THEN Rejected("CallActorError(StaticModeViolation)", 3)
        ELSE IF ~codec.ok THEN Rejected("InvalidInput", 4)
        ELSE IF ~address_size.ok THEN Rejected("InvalidInput", 5)
        ELSE IF ~send_data_size.ok THEN Rejected("InvalidInput", 6)
        ELSE IF ~to.ok THEN Rejected("InvalidInput", 6)
        ELSE IF ~codec_supported(codec.v)
             THEN [ret |-> Err("InvalidInput"), chunks_read |-> 6,
                   sent |-> Some(message)]
        ELSE [ret |-> Ok(output), chunks_read |-> 6, sent |-> Some(message)]

\* call_actor after the check of the call kind: input parameters, the call,
\* the output. host is what send_generalized returns.
call_actor_params(input, ctx, host) ==
    LET method == Parameter_try_from(U256Reader_next_padded(input, 0), 8)
        value == U256_from_big_endian(U256Reader_next_padded(input, 1))
        bits == Parameter_try_from(U256Reader_next_padded(input, 2), 8)
        flags == SendFlags_from_bits(bits.v)
        codec == Parameter_try_from(U256Reader_next_padded(input, 3), 8)
        address_size == Parameter_try_from(U256Reader_next_padded(input, 4), 4)
        send_data_size == Parameter_try_from(U256Reader_next_padded(input, 5), 4)
        asize == BytesNat(address_size.v)
        dsize == BytesNat(send_data_size.v)
        bytes == read_right_pad(U256Reader_remaining_slice(input, CallActorParams),
                                dsize + asize)
        input_data == SubSeq(bytes, 1, dsize)
        to == FilecoinAddress_from_bytes(SubSeq(bytes, dsize + 1, dsize + asize))
        message == [to |-> to.v, method |-> method.v, params |-> input_data,
                    value |-> value, gas_limit |-> ctx.gas_limit, flags |-> flags.v]
        output == call_actor_output(host)
    IN  IF ~method.ok THEN Rejected("InvalidInput", 1)
        ELSE IF ~bits.ok THEN Rejected("InvalidInput", 3)
        ELSE IF ~flags.some THEN Rejected("InvalidInput", 3)
        ELSE IF send_needs_read_only(flags.v, ctx)
             THEN Rejected("CallActorError(StaticModeViolation)", 3)
        ELSE IF ~codec.ok THEN Rejected("InvalidInput", 4)
        ELSE IF ~codec_supported(codec.v) THEN Rejected("InvalidInput", 4)
        ELSE IF ~address_size.ok THEN Rejected("InvalidInput", 5)
        ELSE IF ~send_data_size.ok THEN Rejected("InvalidInput", 6)
        ELSE IF ~to.ok THEN Rejected("InvalidInput", 6)
        ELSE [ret |-> Ok(output), chunks_read |-> 6, sent |-> Some(message)]

\* call_actor that looks at the call kind only for input that decodes.
call_actor_DecodesFirst(input, ctx, host) ==
    LET r == call_actor_params(input, ctx, host)
    IN  IF ~r.ret.ok /\ r.ret.kind = "InvalidInput" THEN r
        ELSE IF ctx.call_type # "DelegateCall" THEN Rejected("CallForbidden", 0)
        ELSE r

call_actor(input, ctx, host) ==
    IF ctx.call_type # "DelegateCall"
    THEN Rejected("CallForbidden", 0)
    ELSE call_actor_params(input, ctx, host)

\* ---------------------------------------------------------- precompile calls

CallKinds == {"Call", "DelegateCall", "StaticCall", "CallCode"}

PrecompileContexts ==
    [call_type : CallKinds, is_readonly : BOOLEAN, gas_limit : {0}]

\* Address and payload bytes after the parameters, with their sizes.
CallTails ==
    {[asize |-> 2, dsize |-> 0, bytes |-> <<0, 1>>],
     [asize |-> 2, dsize |-> 1, bytes |-> <<7, 0, 100>>],
     [asize |-> 2, dsize |-> 0, bytes |-> <<9, 9>>],
     [asize |-> 0, dsize |-> 0, bytes |-> <<>>]}

FullInputs ==
    {to_big_endian(method) \o to_big_endian(<<5>>) \o to_big_endian(flags)
        \o to_big_endian(U256_from(codec)) \o to_big_endian(U256_from(t.asize))
        \o to_big_endian(U256_from(t.dsize)) \o t.bytes :
        method \in {<<1>>, WideWord}, flags \in {<<>>, <<1>>, <<2>>, WideWord},
        codec \in {DAG_CBOR, 85}, t \in CallTails}

\* Inputs of six parameter words (method 1 or 2^64; value 5; flags 0, 1, 2 or
\* 2^64), address and payload; the empty input; inputs cut inside a word.
CallInputs ==
    FullInputs \cup {<<>>}
    \cup {SubSeq(i, 1, n) : i \in FullInputs, n \in {24, 95}}

\* What the call of the other actor gives: a return value, or an ActorError
\* with the exit code of the system (below 16, here SYS_INSUFFICIENT_FUNDS) or
\* of the called actor (from 16, here USR_ILLEGAL_ARGUMENT) and its data.
HostResults ==
    {[ok |-> TRUE, data |-> <<>>],
     [ok |-> TRUE, data |-> <<7, 7>>],
     [ok |-> FALSE, exit_code |-> 6, data |-> <<>>],
     [ok |-> FALSE, exit_code |-> 16, data |-> <<7>>]}

\* A precompile keeps nothing between calls: a run of the model makes one.
CallActor ==
    /\ precompile.op = "none"
    /\ \E input \in CallInputs, ctx \in PrecompileContexts, host \in HostResults :
          LET r == call_actor(input, ctx, host)
          IN  precompile' = [op |-> "call_actor", input |-> input, ctx |-> ctx,
                             host |-> host,
                             ret |-> r.ret, chunks_read |-> r.chunks_read,
                             sent |-> r.sent]
    /\ UNCHANGED <<bytecode, pc, reverted, stack, memory, output_data, return_data,
                   selfdestroyed, ctl, result, last, steps, address, addr_last, actors>>

\* get_randomness with an unknown randomness type read as Chain.
get_randomness_DefaultsToChain(input, host) ==
    LET randomness_type == Parameter_try_from(U256Reader_next_padded(input, 0), 4)
        personalization == Parameter_try_from(U256Reader_next_padded(input, 1), 8)
        rand_epoch == Parameter_try_from(U256Reader_next_padded(input, 2), 8)
        entropy_len == Parameter_try_from(U256Reader_next_padded(input, 3), 4)
        entropy == read_right_pad(U256Reader_remaining_slice(input, 4),
                                  BytesNat(entropy_len.v))
        call(kind) == [kind |-> kind, personalization |-> personalization.v,
                       rand_epoch |-> rand_epoch.v, entropy |-> entropy]
    IN  IF ~randomness_type.ok \/ ~personalization.ok \/ ~rand_epoch.ok
           \/ ~entropy_len.ok
        THEN [ret |-> Err("InvalidInput"), called |-> None]
        ELSE [ret |-> IF host.ok THEN host ELSE Err("InvalidInput"),
              called |-> Some(call(IF randomness_type.v = <<1>> THEN "Beacon"
                                   ELSE "Chain"))]

\* host is what the randomness of the runtime returns when it is asked.
get_randomness(input, host) ==
    LET randomness_type == Parameter_try_from(U256Reader_next_padded(input, 0), 4)
        personalization == Parameter_try_from(U256Reader_next_padded(input, 1), 8)
        rand_epoch == Parameter_try_from(U256Reader_next_padded(input, 2), 8)
        entropy_len == Parameter_try_from(U256Reader_next_padded(input, 3), 4)
        entropy == read_right_pad(U256Reader_remaining_slice(input, 4),
                                  BytesNat(entropy_len.v))
        call(kind) == [kind |-> kind, personalization |-> personalization.v,
                       rand_epoch |-> rand_epoch.v, entropy |-> entropy]
    IN  IF ~randomness_type.ok \/ ~personalization.ok \/ ~rand_epoch.ok
           \/ ~entropy_len.ok
        THEN [ret |-> Err("InvalidInput"), called |-> None]
        ELSE IF randomness_type.v = <<>>
        THEN [ret |-> IF host.ok THEN host ELSE Err("InvalidInput"),
              called |-> Some(call("Chain"))]
        ELSE IF randomness_type.v = <<1>>
        THEN [ret |-> IF host.ok THEN host ELSE Err("InvalidInput"),
              called |-> Some(call("Beacon"))]
        ELSE [ret |-> Ok(<<>>), called |-> None]

\* Randomness type 0, 1, 2, -1 as an i32 or 2^64; personalization 1 or 2^64;
\* epoch 3; no entropy or two bytes of it; the empty input; inputs cut short.
RandomnessInputs ==
    LET whole == {to_big_endian(t) \o to_big_endian(p) \o to_big_endian(<<3>>)
                     \o to_big_endian(U256_from(Len(e))) \o e :
                     t \in {<<>>, <<1>>, <<2>>, <<255, 255, 255, 255>>, WideWord},
                     p \in {<<1>>, WideWord}, e \in {<<>>, <<8, 9>>}}
    IN  whole \cup {<<>>} \cup {SubSeq(i, 1, n) : i \in whole, n \in {32, 100}}

GetRandomness ==
    /\ precompile.op = "none"
    /\ \E input \in RandomnessInputs, host \in {Ok(<<42, 43>>), Err("host")} :
          LET r == get_randomness(input, host)
          IN  precompile' = [op |-> "get_randomness", input |-> input,
                             host |-> host, ret |-> r.ret, called |-> r.called]
    /\ UNCHANGED <<bytecode, pc, reverted, stack, memory, output_data, return_data,
                   selfdestroyed, ctl, result, last, steps, address, addr_last, actors>>

\* fvm_shared Address::to_bytes: the protocol byte and the payload, which for
\* an ID address below 128 is the id as a one-byte varint.
FilecoinAddress_to_bytes(a) ==
    IF a.protocol = "ID" THEN <<0, BytesNat(a.id)>> ELSE <<2>> \o a.payload

\* host is what rt.lookup_address returns for the id.
lookup_address(input, host) ==
    LET id == Parameter_try_from(U256Reader_next_padded(input, 0), 8)
    IN  IF ~id.ok THEN [ret |-> Err("InvalidInput"), called |-> None]
        ELSE [ret |-> Ok(IF host.some THEN FilecoinAddress_to_bytes(host.v) ELSE <<>>),
              called |-> Some(id.v)]

\* resolve_address that fails on bytes that are not an address.
resolve_address_FailsUnparsed(input, host) ==
    LET len == Parameter_try_from(U256Reader_next_padded(input, 0), 4)
        addr == FilecoinAddress_from_bytes(
                    read_right_pad(U256Reader_remaining_slice(input, 1),
                                   BytesNat(len.v)))
    IN  IF ~len.ok \/ ~addr.ok THEN [ret |-> Err("InvalidInput"), called |-> None]
        ELSE [ret |-> Ok(IF host.some THEN u64_to_be_bytes(host.v) ELSE <<>>),
              called |-> Some(addr.v)]

\* host is what rt.resolve_address returns for the address.
resolve_address(input, host) ==
    LET len == Parameter_try_from(U256Reader_next_padded(input, 0), 4)
        addr == FilecoinAddress_from_bytes(
                    read_right_pad(U256Reader_remaining_slice(input, 1),
                                   BytesNat(len.v)))
    IN  IF ~len.ok THEN [ret |-> Err("InvalidInput"), called |-> None]
        ELSE IF ~addr.ok THEN [ret |-> Ok(<<>>), called |-> None]
        ELSE [ret |-> Ok(IF host.some THEN u64_to_be_bytes(host.v) ELSE <<>>),
              called |-> Some(addr.v)]

\* An id word (1, 2^56 + 1, 2^64), whole or cut short, or no input; the host
\* knows an actor address for the id or none.
LookupAddress ==
    /\ precompile.op = "none"
    /\ \E id \in {<<1>>, <<1, 0, 0, 0, 0, 0, 0, 1>>, WideWord}, n \in {0, 31, 32},
          host \in {None, Some([protocol |-> "Actor", payload |-> Zeros(19) \o <<5>>])} :
          LET input == SubSeq(to_big_endian(id), 1, n)
              r == lookup_address(input, host)
          IN  precompile' = [op |-> "lookup_address", input |-> input,
                             host |-> host, ret |-> r.ret, called |-> r.called]
    /\ UNCHANGED <<bytecode, pc, reverted, stack, memory, output_data, return_data,
                   selfdestroyed, ctl, result, last, steps, address, addr_last, actors>>

\* A length word (0, 2, 3, 2^64) and the bytes of an ID address, of no
\* address, or none; the host knows an id (1, 2^56 + 1) for the address or
\* none.
ResolveAddress ==
    /\ precompile.op = "none"
    /\ \E len \in {<<>>, <<2>>, <<3>>, WideWord},
          bytes \in {<<>>, <<0, 1>>, <<0, 100>>, <<9, 9>>},
          host \in {None, Some(<<1>>), Some(<<1, 0, 0, 0, 0, 0, 0, 1>>)} :
          LET input == to_big_endian(len) \o bytes
              r == resolve_address(input, host)
          IN  precompile' = [op |-> "resolve_address", input |-> input,
                             host |-> host, ret |-> r.ret, called |-> r.called]
    /\ UNCHANGED <<bytecode, pc, reverted, stack, memory, output_data, return_data,
                   selfdestroyed, ctl, result, last, steps, address, addr_last, actors>>

NextPrecompile ==
    \/ CallActor
    \/ GetRandomness
    \/ LookupAddress
    \/ ResolveAddress

SpecPrecompile == InitWith({<<>>}, {<<>>}) /\ [][NextPrecompile]_vars

\* C19: call_actor returns CallForbidden for every call kind other than
\* DelegateCall, before it decodes any input: empty or malformed input under
\* such a call kind gives CallForbidden, not InvalidInput, and nothing is sent.
C19_CallForbiddenFirst ==
    precompile.op = "call_actor" =>
        /\ precompile.ctx.call_type # "DelegateCall" =>
              /\ precompile.ret = Err("CallForbidden")
              /\ precompile.chunks_read = 0
              /\ precompile.sent = None
        /\ precompile.ctx.call_type = "DelegateCall" =>
              precompile.ret # Err("CallForbidden")

\* A static call whose method word does not fit the method number.
C19_Witness ==
    /\ precompile.op = "call_actor"
    /\ precompile.ctx.call_type = "StaticCall"
    /\ Len(precompile.input) >= 32
    /\ precompile.input[24] # 0
    /\ precompile.ret = Err("CallForbidden")

\* The send flags of an input whose first three words decode.
DecodedFlags(input) ==
    LET method == Parameter_try_from(U256Reader_next_padded(input, 0), 8)
        bits == Parameter_try_from(U256Reader_next_padded(input, 2), 8)
    IN  IF method.ok /\ bits.ok THEN SendFlags_from_bits(bits.v) ELSE None

\* C20: a delegate call of call_actor in a read-only context whose decoded
\* send flags lack the read-only flag is rejected with StaticModeViolation;
\* with the read-only flag, and in a context that is not read-only with any
\* flags, the send is not rejected for this.
C20_ReadOnlySend ==
    (precompile.op = "call_actor" /\ precompile.ctx.call_type = "DelegateCall"
        /\ DecodedFlags(precompile.input).some) =>
        LET flags == DecodedFlags(precompile.input).v
        IN  /\ (precompile.ctx.is_readonly /\ "READ_ONLY" \notin flags) =>
                  /\ precompile.ret = Err("CallActorError(StaticModeViolation)")
                  /\ precompile.sent = None
            /\ (~precompile.ctx.is_readonly \/ "READ_ONLY" \in flags) =>
                  /\ precompile.ret # Err("CallActorError(StaticModeViolation)")
                  /\ precompile.chunks_read > 3

\* A send without the read-only flag, otherwise well-formed, in a read-only
\* context.
C20_Witness ==
    /\ precompile.op = "call_actor"
    /\ precompile.ctx.call_type = "DelegateCall"
    /\ precompile.ctx.is_readonly
    /\ Len(precompile.input) = 194
    /\ DecodedFlags(precompile.input) = Some({})
    /\ precompile.input[128] = DAG_CBOR
    /\ precompile.ret = Err("CallActorError(StaticModeViolation)")


\* The parameter words of an input: method, flags, codec and sizes.
InputParam(input, k, n) == Parameter_try_from(U256Reader_next_padded(input, k), n)

\* The bytes of the target address in an input whose sizes decode.
AddressBytes(input) ==
    LET asize == BytesNat(InputParam(input, 4, 4).v)
        dsize == BytesNat(InputParam(input, 5, 4).v)
    IN  SubSeq(read_right_pad(U256Reader_remaining_slice(input, CallActorParams),
                              dsize + asize),
               dsize + 1, dsize + asize)

\* The input passes every check before the codec is looked at.
ReachesCodec ==
    /\ precompile.op = "call_actor"
    /\ precompile.ctx.call_type = "DelegateCall"
    /\ DecodedFlags(precompile.input).some
    /\ ~precompile.ctx.is_readonly \/ "READ_ONLY" \in DecodedFlags(precompile.input).v
    /\ InputParam(precompile.input, 3, 8).ok

\* C21: call_actor accepts the one codec DAG_CBOR: a delegate call whose input
\* gets as far as the codec with another codec word is rejected with
\* InvalidInput; so are a flags word with undefined bits and address bytes
\* that are not an address; with DAG_CBOR, sizes that decode and an address
\* that parses the send is made.
C21_OnlyCborCodec ==
    /\ (ReachesCodec /\ InputParam(precompile.input, 3, 8).v # <<DAG_CBOR>>) =>
          /\ precompile.ret = Err("InvalidInput")
          /\ precompile.sent = None
    /\ (precompile.op = "call_actor" /\ precompile.ctx.call_type = "DelegateCall"
           /\ InputParam(precompile.input, 0, 8).ok
           /\ InputParam(precompile.input, 2, 8).ok
           /\ InputParam(precompile.input, 2, 8).v \notin {<<>>, <<1>>}) =>
          /\ precompile.ret = Err("InvalidInput")
          /\ precompile.sent = None
    /\ (ReachesCodec /\ InputParam(precompile.input, 3, 8).v = <<DAG_CBOR>>
           /\ InputParam(precompile.input, 4, 4).ok
           /\ InputParam(precompile.input, 5, 4).ok) =>
          IF FilecoinAddress_from_bytes(AddressBytes(precompile.input)).ok
          THEN precompile.ret.ok /\ precompile.sent.some
          ELSE precompile.ret = Err("InvalidInput") /\ precompile.sent = None

\* A whole input with a parsing address and the codec 0x55, in a context
\* that is not read-only.
C21_Witness ==
    /\ ReachesCodec
    /\ ~precompile.ctx.is_readonly
    /\ Len(precompile.input) = 194
    /\ InputParam(precompile.input, 3, 8).v = <<85>>
    /\ AddressBytes(precompile.input) = <<0, 1>>
    /\ precompile.ret = Err("InvalidInput")

\* C22: whenever call_actor reaches the send, whether the send succeeds or
\* fails, it returns Ok and the output is the four 32-byte big-endian words
\* exit_code, codec (DAG_CBOR), offset (128) and size (the length of the
\* payload) followed by the payload without padding: 128 bytes and the payload.
C22_OutputLayout ==
    precompile.op = "call_actor" =>
        /\ precompile.sent.some <=> precompile.ret.ok
        /\ precompile.sent.some =>
              LET out == precompile.ret.v
                  data == precompile.host.data
              IN  /\ Len(out) = 128 + Len(data)
                  /\ SubSeq(out, 1, 32) =
                        Zeros(32 - Len(NatBytes(IF precompile.host.ok THEN 0
                                                ELSE precompile.host.exit_code)))
                        \o NatBytes(IF precompile.host.ok THEN 0
                                    ELSE precompile.host.exit_code)
                  /\ SubSeq(out, 33, 64) = Zeros(31) \o <<DAG_CBOR>>
                  /\ SubSeq(out, 65, 96) = Zeros(31) \o <<128>>
                  /\ SubSeq(out, 97, 128) = Zeros(32 - Len(NatBytes(Len(data))))
                                            \o NatBytes(Len(data))
                  /\ SubSeq(out, 129, Len(out)) = data

\* A failed send with one byte of data: 129 bytes of output.
C22_Witness ==
    /\ precompile.op = "call_actor"
    /\ precompile.sent.some
    /\ ~precompile.host.ok
    /\ Len(precompile.host.data) = 1
    /\ precompile.ret.ok
    /\ Len(precompile.ret.v) = 129

\* The exit code word of an output, and its sign as an int256.
ExitCodeWord == SubSeq(precompile.ret.v, 1, 32)
IsNegativeWord(w) == w[1] >= 128

\* C23: the exit_code word of the call_actor output is 0 exactly when the send
\* succeeded; it is negative when the send failed with an exit code of the
\* system, and positive when it failed with an exit code of the called actor.
C23_AsStated ==
    (precompile.op = "call_actor" /\ precompile.sent.some) =>
        /\ (ExitCodeWord = Zeros(32)) <=> precompile.host.ok
        /\ (~precompile.host.ok /\ precompile.host.exit_code < 16) =>
              IsNegativeWord(ExitCodeWord)
        /\ (~precompile.host.ok /\ precompile.host.exit_code >= 16) =>
              /\ ~IsNegativeWord(ExitCodeWord)
              /\ ExitCodeWord # Zeros(32)

\* What the code gives: the word is the u32 exit code, zero-extended, so it
\* is never negative, and it is 0 exactly when the send succeeded.
C23_ExitCodeNeverNegative ==
    (precompile.op = "call_actor" /\ precompile.sent.some) =>
        /\ (ExitCodeWord = Zeros(32)) <=> precompile.host.ok
        /\ ~IsNegativeWord(ExitCodeWord)
        /\ ~precompile.host.ok =>
              BytesNat(StripZeros(ExitCodeWord)) = precompile.host.exit_code

\* A send that failed with an exit code of the system, reported as a positive
\* word.
C23_Witness ==
    /\ precompile.op = "call_actor"
    /\ precompile.sent.some
    /\ ~precompile.host.ok
    /\ precompile.host.exit_code = 6
    /\ ExitCodeWord = Zeros(31) \o <<6>>


\* The randomness type of an input whose four parameter words decode.
DecodedRandomnessType(input) ==
    IF \A k \in 0..3 : InputParam(input, k, IF k \in {0, 3} THEN 4 ELSE 8).ok
    THEN Some(InputParam(input, 0, 4).v)
    ELSE None

C25_EmptyWhenUnmapped ==
    /\ (precompile.op = "lookup_address" /\ InputParam(precompile.input, 0, 8).ok) =>
          /\ precompile.called = Some(InputParam(precompile.input, 0, 8).v)
          /\ precompile.ret.ok
          /\ precompile.host = None <=> precompile.ret.v = <<>>
    /\ (precompile.op = "resolve_address" /\ InputParam(precompile.input, 0, 4).ok) =>
          LET len == BytesNat(InputParam(precompile.input, 0, 4).v)
              bytes == read_right_pad(SubSeq(precompile.input, 33,
                                             Len(precompile.input)), len)
          IN  /\ precompile.ret.ok
              /\ ~FilecoinAddress_from_bytes(bytes).ok =>
                    /\ precompile.ret.v = <<>>
                    /\ precompile.called = None
              /\ FilecoinAddress_from_bytes(bytes).ok =>
                    /\ precompile.called.some
                    /\ precompile.host = None => precompile.ret.v = <<>>
                    /\ precompile.host.some =>
                          /\ Len(precompile.ret.v) = 8
                          /\ StripZeros(precompile.ret.v) = precompile.host.v

\* Bytes that are no address, where the host would have known an id.
C25_Witness ==
    /\ precompile.op = "resolve_address"
    /\ Len(precompile.input) = 34
    /\ precompile.input[32] = 2
    /\ precompile.input[33] = 9
    /\ precompile.host.some
    /\ precompile.ret = Ok(<<>>)


\* ----------------------------------------------------------------- market

\* Policy::deal_updates_interval, in epochs (EPOCHS_IN_DAY in the network).
DealUpdatesInterval == 2

Min(a, b) == IF a <= b THEN a ELSE b
Max(a, b) == IF a >= b THEN a ELSE b

\* A map without the key k.
Without(f, k) == [i \in DOMAIN f \ {k} |-> f[i]]

\* DealProposal::total_storage_fee and client_balance_requirement
total_storage_fee(p) == p.storage_price_per_epoch * (p.end_epoch - p.start_epoch)
client_balance_requirement(p) == p.client_collateral + total_storage_fee(p)

\* gen_rand_next_epoch: the first epoch at or after start_epoch that is the
\* offset of the deal in the update interval.
process_epoch(start_epoch, deal_id) ==
    LET offset == deal_id % DealUpdatesInterval
        prev_day == (start_epoch \div DealUpdatesInterval) * DealUpdatesInterval
    IN  IF prev_day + offset >= start_epoch THEN prev_day + offset
        ELSE prev_day + DealUpdatesInterval + offset

\* generate_and_publish_deal: the harness adds the funds the deal needs to the
\* escrow of the client and of the provider, and PublishStorageDeals locks
\* them, stores the proposal and schedules the deal for its first processing.
publish_deal(m, p) ==
    LET id == m.next_id
    IN  [m EXCEPT
           !.next_id = id + 1,
           !.proposals = (id :> p) @@ m.proposals,
           !.escrow = [m.escrow EXCEPT
                         !["CLIENT"] = @ + client_balance_requirement(p),
                         ![p.provider] = @ + p.provider_collateral],
           !.locked = [m.locked EXCEPT
                         !["CLIENT"] = @ + client_balance_requirement(p),
                         ![p.provider] = @ + p.provider_collateral],
           !.deal_ops = m.deal_ops \cup {<<process_epoch(p.start_epoch, id), id>>}]

\* Activation that does not look at whether the deal has a state already.
validate_deal_can_activate_Again(m, deal_id, caller, sector_expiry) ==
    IF deal_id \notin DOMAIN m.proposals THEN "USR_NOT_FOUND"
    ELSE LET p == m.proposals[deal_id]
         IN  IF p.provider # caller THEN "USR_FORBIDDEN"
             ELSE IF m.epoch > p.start_epoch THEN "USR_ILLEGAL_ARGUMENT"
             ELSE IF p.end_epoch > sector_expiry THEN "USR_ILLEGAL_ARGUMENT"
             ELSE "OK"

\* The checks of one deal of a sector in BatchActivateDeals.
validate_deal_can_activate(m, deal_id, caller, sector_expiry) ==
    IF deal_id \notin DOMAIN m.proposals THEN "USR_NOT_FOUND"
    ELSE LET p == m.proposals[deal_id]
         IN  IF p.provider # caller THEN "USR_FORBIDDEN"
             ELSE IF deal_id \in DOMAIN m.states THEN "USR_ILLEGAL_ARGUMENT"
             ELSE IF m.epoch > p.start_epoch THEN "USR_ILLEGAL_ARGUMENT"
             ELSE IF p.end_epoch > sector_expiry THEN "USR_ILLEGAL_ARGUMENT"
             ELSE "OK"

\* BatchActivateDeals over sectors of one deal each: a sector whose deal fails
\* a check is reported failed and the next sector is looked at; a sector that
\* passes gets its deal state. legacy tells a deal that cron keeps settling.
RECURSIVE batch_activate_deals(_, _, _, _)
batch_activate_deals(m, caller, sectors, legacy) ==
    IF sectors = <<>> THEN [m |-> m, codes |-> <<>>]
    ELSE LET s == Head(sectors)
             code == validate_deal_can_activate(m, s.deal_id, caller, s.sector_expiry)
             m1 == IF code = "OK"
                   THEN [m EXCEPT !.states =
                            (s.deal_id :> [sector_start_epoch |-> m.epoch,
                                           last_updated_epoch |-> EPOCH_UNDEFINED,
                                           slash_epoch |-> EPOCH_UNDEFINED,
                                           legacy |-> legacy]) @@ m.states]
                   ELSE m
             rest == batch_activate_deals(m1, caller, Tail(sectors), legacy)
         IN  [m |-> rest.m, codes |-> <<code>> \o rest.codes]

\* transfer_balance, slash_balance and unlock_balance of the balance tables.
transfer_balance(m, from, to, amount) ==
    [m EXCEPT !.escrow = [m.escrow EXCEPT ![from] = @ - amount, ![to] = @ + amount],
              !.locked = [m.locked EXCEPT ![from] = @ - amount]]
slash_balance(m, a, amount) ==
    [m EXCEPT !.escrow = [m.escrow EXCEPT ![a] = @ - amount],
              !.locked = [m.locked EXCEPT ![a] = @ - amount],
              !.burnt = @ + amount]
unlock_balance(m, a, amount) ==
    [m EXCEPT !.locked = [m.locked EXCEPT ![a] = @ - amount]]

remove_deal(m, deal_id) ==
    [m EXCEPT !.proposals = Without(m.proposals, deal_id),
              !.states = Without(m.states, deal_id)]

\* The time-out that leaves the funds of the client locked.
process_deal_init_timed_out_KeepsLock(m, deal_id) ==
    LET p == m.proposals[deal_id]
    IN  remove_deal(slash_balance(m, p.provider, p.provider_collateral), deal_id)

\* A published deal that was not activated in time: the client gets its
\* funds unlocked, the provider collateral is burnt, the deal is deleted.
process_deal_init_timed_out(m, deal_id) ==
    LET p == m.proposals[deal_id]
        m1 == unlock_balance(m, "CLIENT", client_balance_requirement(p))
    IN  remove_deal(slash_balance(m1, p.provider, p.provider_collateral), deal_id)

\* The update that pays from the start epoch every time.
process_deal_update_FromStart(m, deal_id) ==
    LET p == m.proposals[deal_id]
        st == m.states[deal_id]
        payment == p.storage_price_per_epoch
                      * Max(0, Min(p.end_epoch, m.epoch) - p.start_epoch)
        m1 == transfer_balance(m, "CLIENT", p.provider, payment)
    IN  IF m.epoch < p.start_epoch
        THEN [m |-> m, payment |-> 0, completed |-> FALSE]
        ELSE IF m.epoch >= p.end_epoch
        THEN [m |-> remove_deal(unlock_balance(
                        unlock_balance(m1, p.provider, p.provider_collateral),
                        "CLIENT", p.client_collateral), deal_id),
              payment |-> payment, completed |-> TRUE]
        ELSE [m |-> [m1 EXCEPT !.states[deal_id].last_updated_epoch = m.epoch],
              payment |-> payment, completed |-> FALSE]

\* The update of an active deal at the current epoch: the epochs since it was
\* last updated (or since its start) up to its end are paid; at or after the
\* end the collaterals are unlocked and the deal is deleted.
process_deal_update(m, deal_id) ==
    LET p == m.proposals[deal_id]
        st == m.states[deal_id]
        payment_start == IF st.last_updated_epoch # EPOCH_UNDEFINED
                            /\ st.last_updated_epoch > p.start_epoch
                         THEN st.last_updated_epoch ELSE p.start_epoch
        payment_end == Min(p.end_epoch, m.epoch)
        payment == p.storage_price_per_epoch * Max(0, payment_end - payment_start)
        m1 == transfer_balance(m, "CLIENT", p.provider, payment)
    IN  IF m.epoch < p.start_epoch
        THEN [m |-> m, payment |-> 0, completed |-> FALSE]
        ELSE IF m.epoch >= p.end_epoch
        THEN [m |-> remove_deal(unlock_balance(
                        unlock_balance(m1, p.provider, p.provider_collateral),
                        "CLIENT", p.client_collateral), deal_id),
              payment |-> payment, completed |-> TRUE]
        ELSE [m |-> [m1 EXCEPT !.states[deal_id].last_updated_epoch = m.epoch],
              payment |-> payment, completed |-> FALSE]

\* A deal that takes part in a termination: active, of the caller, not ended.
CanTerminate(m, caller, deal_id) ==
    /\ deal_id \in DOMAIN m.states
    /\ m.proposals[deal_id].provider = caller
    /\ m.epoch < m.proposals[deal_id].end_epoch

\* OnMinerSectorsTerminate for one deal: the epochs up to now are paid, the
\* rest of the client's funds is unlocked, the provider collateral is burnt
\* and the deal is deleted. Other deals are left alone.
terminate_deal(m, caller, deal_id) ==
    IF ~CanTerminate(m, caller, deal_id) THEN [m |-> m, payment |-> 0]
    ELSE LET p == m.proposals[deal_id]
             st == m.states[deal_id]
             payment_start == IF st.last_updated_epoch # EPOCH_UNDEFINED
                                 /\ st.last_updated_epoch > p.start_epoch
                              THEN st.last_updated_epoch ELSE p.start_epoch
             payment == p.storage_price_per_epoch * Max(0, m.epoch - payment_start)
             remaining == p.storage_price_per_epoch
                             * (p.end_epoch - Max(m.epoch, payment_start))
             m1 == transfer_balance(m, "CLIENT", p.provider, payment)
             m2 == unlock_balance(m1, "CLIENT", p.client_collateral + remaining)
         IN  [m |-> remove_deal(slash_balance(m2, p.provider, p.provider_collateral),
                                deal_id),
              payment |-> payment]


\* What one processing of a deal did: the payment and what the deal came to
\* ("active" while it lives on).
Event(deal_id, payment, fate) == [id |-> deal_id, payment |-> payment, fate |-> fate]

\* get_active_deal_or_process_timeout and the update of one deal, as
\* settle_deal_payments runs them for each requested id.
settle_one(m, deal_id) ==
    IF deal_id \notin DOMAIN m.proposals
    THEN [m |-> m, code |-> "USR_NOT_FOUND", events |-> <<>>]
    ELSE IF deal_id \notin DOMAIN m.states
    THEN IF m.epoch < m.proposals[deal_id].start_epoch
         THEN [m |-> m, code |-> "EX_DEAL_NOT_ACTIVATED", events |-> <<>>]
         ELSE [m |-> process_deal_init_timed_out(m, deal_id),
               code |-> "USR_NOT_FOUND", events |-> <<Event(deal_id, 0, "slashed")>>]
    ELSE IF m.states[deal_id].last_updated_epoch = m.epoch
    THEN [m |-> m, code |-> "OK", events |-> <<Event(deal_id, 0, "active")>>]
    ELSE LET r == process_deal_update(m, deal_id)
         IN  [m |-> r.m, code |-> "OK",
              events |-> <<Event(deal_id, r.payment,
                                 IF r.completed THEN "expired" ELSE "active")>>]

\* settle_deal_payments that gives up at the first deal it cannot settle.
RECURSIVE settle_deal_payments_StopsAtFailure(_, _)
settle_deal_payments_StopsAtFailure(m, deal_ids) ==
    IF deal_ids = <<>> THEN [m |-> m, codes |-> <<>>, events |-> <<>>]
    ELSE LET one == settle_one(m, Head(deal_ids))
             rest == IF one.code = "OK"
                     THEN settle_deal_payments_StopsAtFailure(one.m, Tail(deal_ids))
                     ELSE [m |-> one.m, codes |-> <<>>, events |-> <<>>]
         IN  [m |-> rest.m, codes |-> <<one.code>> \o rest.codes,
              events |-> one.events \o rest.events]

\* SettleDealPayments: one result per requested id, in the order asked; the
\* events of the deals that settled OK are the settlements returned.
RECURSIVE settle_deal_payments(_, _)
settle_deal_payments(m, deal_ids) ==
    IF deal_ids = <<>> THEN [m |-> m, codes |-> <<>>, events |-> <<>>]
    ELSE LET one == settle_one(m, Head(deal_ids))
             rest == settle_deal_payments(one.m, Tail(deal_ids))
         IN  [m |-> rest.m, codes |-> <<one.code>> \o rest.codes,
              events |-> one.events \o rest.events]

\* The deal operations that are due, in the order of their epochs: the
\* operation of a deal that is gone is dropped; a deal that was not activated
\* has timed out; a legacy deal is updated and, while it lives, scheduled
\* again; the other deals are left to settle_deal_payments.
RECURSIVE cron_ops(_, _)
cron_ops(m, due) ==
    IF due = {} THEN [m |-> m, events |-> <<>>]
    ELSE LET op == CHOOSE o \in due :
                      \A q \in due : o[1] < q[1] \/ (o[1] = q[1] /\ o[2] <= q[2])
             id == op[2]
             dropped == [m EXCEPT !.deal_ops = @ \ {op}]
             one ==
                 IF id \notin DOMAIN m.proposals
                 THEN [m |-> dropped, events |-> <<>>]
                 ELSE IF id \notin DOMAIN m.states
                 THEN [m |-> process_deal_init_timed_out(dropped, id),
                       events |-> <<Event(id, 0, "slashed")>>]
                 ELSE IF ~m.states[id].legacy
                 THEN [m |-> dropped, events |-> <<>>]
                 ELSE LET r == process_deal_update(dropped, id)
                      IN  [m |-> IF r.completed THEN r.m
                                 ELSE [r.m EXCEPT !.deal_ops =
                                          @ \cup {<<m.epoch + DealUpdatesInterval, id>>}],
                           events |-> <<Event(id, r.payment,
                                              IF r.completed THEN "expired"
                                              ELSE "active")>>]
             rest == cron_ops(one.m, due \ {op})
         IN  [m |-> rest.m, events |-> one.events \o rest.events]

\* CronTick at the current epoch.
cron_tick(m) ==
    LET r == cron_ops(m, {op \in m.deal_ops : op[1] <= m.epoch})
    IN  [m |-> r.m, events |-> r.events]

\* ------------------------------------------------------------ market calls

\* Epochs run to MaxEpoch; at most MaxDeals deals are published to be settled
\* and at most MaxRivalDeals to be activated.
MaxEpoch == 3
MaxDeals == 1
MaxRivalDeals == 2

\* generate_proposal: what the harness fills in, for a provider and the epochs.
Proposal(provider, start_epoch, end_epoch) ==
    [provider |-> provider, start_epoch |-> start_epoch, end_epoch |-> end_epoch,
     storage_price_per_epoch |-> 2, provider_collateral |-> 5,
     client_collateral |-> 3]

\* The deals of PROVIDER that are settled: a longer and a shorter one.
DealProposals == {Proposal("PROVIDER", 1, 3), Proposal("PROVIDER", 2, 3)}
\* The deals PROVIDER is asked to activate: its own and one of another miner.
RivalProposals == {Proposal("PROVIDER", 1, 3), Proposal("PROVIDER2", 1, 3)}

\* Deal ids asked for: the deals that can exist and one that never does.
NoSuchDeal == 9999
DealIds == 0..(MaxDeals - 1)
RivalDealIds == 0..(MaxRivalDeals - 1)
\* One deal, or two deals (or one deal twice) around the deal that never
\* exists.
SettleLists ==
    {<<a>> : a \in DealIds} \cup {<<a, NoSuchDeal, b>> : a \in DealIds, b \in DealIds}
\* One sector, or two sectors with the same deal or with the next deal.
ActivateLists ==
    {<<a>> : a \in RivalDealIds \cup {NoSuchDeal}}
    \cup {<<a, b>> \in RivalDealIds \X RivalDealIds : b \in {a, a + 1}}

\* The payments and fates of the events, added to the log.
RECURSIVE Logged(_, _)
Logged(log, events) ==
    IF events = <<>> THEN log
    ELSE LET e == Head(events)
         IN  Logged([log EXCEPT
                        !.paid = [@ EXCEPT ![e.id] = @ + e.payment],
                        !.fate = [@ EXCEPT ![e.id] = e.fate]],
                    Tail(events))

\* What the log keeps of every deal ever published: its proposal, what it was
\* paid so far and what it came to.
Ledger ==
    [deals |-> market_log.deals, paid |-> market_log.paid, fate |-> market_log.fate]

MarketOnly ==
    UNCHANGED <<bytecode, pc, reverted, stack, memory, output_data, return_data,
                selfdestroyed, ctl, result, last, steps, address, addr_last, precompile,
                partition, partition_last, reward, reward_log, bundler>>

\* rt.set_epoch to a later epoch.
SetEpoch ==
    /\ \E e \in (market.epoch + 1)..MaxEpoch :
          /\ market' = [market EXCEPT !.epoch = e]
          /\ market_log' = [op |-> "set_epoch"] @@ Ledger
    /\ MarketOnly

Publish(proposals, max) ==
    /\ market.next_id < max
    /\ \E p \in proposals :
          /\ p.start_epoch >= market.epoch
          /\ market' = publish_deal(market, p)
          /\ market_log' = [op |-> "publish", id |-> market.next_id,
                            deals |-> (market.next_id :> p) @@ market_log.deals,
                            paid |-> (market.next_id :> 0) @@ market_log.paid,
                            fate |-> (market.next_id :> "published") @@ market_log.fate]
    /\ MarketOnly

PublishDeal == Publish(DealProposals, MaxDeals)
PublishRival == Publish(RivalProposals, MaxRivalDeals)

\* BatchActivateDeals called by PROVIDER with the sectors of the deals ids,
\* as an actor of the given type: a caller that is not a miner actor is
\* turned away.
Activate(type, ids, legacy) ==
    LET sectors == [i \in 1..Len(ids) |->
                      [deal_id |-> ids[i], sector_expiry |-> MaxEpoch + 1]]
        r == batch_activate_deals(market, "PROVIDER", sectors, legacy)
    IN  /\ IF type # "Miner"
           THEN /\ market' = market
                /\ market_log' = [op |-> "activate", type |-> type,
                                  abort |-> "USR_FORBIDDEN"] @@ Ledger
           ELSE /\ market' = r.m
                /\ market_log' =
                      [op |-> "activate", type |-> type, abort |-> "none", ids |-> ids,
                       codes |-> r.codes, deals |-> market_log.deals,
                       paid |-> market_log.paid,
                       fate |-> [i \in DOMAIN market_log.fate |->
                                   IF i \in DOMAIN r.m.states \ DOMAIN market.states
                                   THEN "active" ELSE market_log.fate[i]]]
        /\ MarketOnly

\* activate_deals and activate_deals_legacy of the harness: one sector of one
\* deal, left to settle_deal_payments or kept in the hands of cron.
ActivateDeal == \E id \in DealIds, legacy \in BOOLEAN : Activate("Miner", <<id>>, legacy)

\* BatchActivateDeals over one or two sectors, by a miner or an account actor.
BatchActivateDeals ==
    \E type \in {"Miner", "Account"}, ids \in ActivateLists : Activate(type, ids, FALSE)

SettleDealPayments ==
    /\ \E ids \in SettleLists :
          LET r == settle_deal_payments(market, ids)
          IN  /\ market' = r.m
              /\ market_log' = Logged([op |-> "settle", ids |-> ids, codes |-> r.codes,
                                       events |-> r.events] @@ Ledger, r.events)
    /\ MarketOnly

CronTick ==
    /\ LET r == cron_tick(market)
       IN  /\ market' = r.m
           /\ market_log' = Logged([op |-> "cron", events |-> r.events] @@ Ledger,
                                   r.events)
    /\ MarketOnly

TerminateDeals ==
    /\ \E id \in DOMAIN market.states :
          LET r == terminate_deal(market, "PROVIDER", id)
              events == IF CanTerminate(market, "PROVIDER", id)
                        THEN <<Event(id, r.payment, "terminated")>> ELSE <<>>
          IN  /\ market' = r.m
              /\ market_log' = Logged([op |-> "terminate", events |-> events]
                                      @@ Ledger, events)
    /\ MarketOnly

\* The life of deals that are activated and paid for.
NextMarket ==
    \/ SetEpoch
    \/ PublishDeal
    \/ ActivateDeal
    \/ SettleDealPayments
    \/ CronTick
    \/ TerminateDeals

SpecMarket == InitWith({<<>>}, {<<>>}) /\ [][NextMarket]_vars

\* The activations a miner asks for, of its deals and of others'.
NextActivate ==
    \/ SetEpoch
    \/ PublishRival
    \/ BatchActivateDeals
    \/ CronTick

SpecActivate == InitWith({<<>>}, {<<>>}) /\ [][NextActivate]_vars


\* ------------------------------------------------------------ market claims

RECURSIVE SumOver(_, _)
\* The sum of f[i] over the i of S.
SumOver(f, S) ==
    IF S = {} THEN 0
    ELSE LET i == CHOOSE j \in S : TRUE IN f[i] + SumOver(f, S \ {i})

Published == DOMAIN market_log.deals
DealsOf(a) == {id \in Published : market_log.deals[id].provider = a}
Burnt == {id \in Published : market_log.fate[id] \in {"slashed", "terminated"}}

\* The epoch an active deal is paid up to.
PaidUpTo(id) ==
    Max(market.proposals[id].start_epoch, market.states[id].last_updated_epoch)

Slashed == {id \in Published : market_log.fate[id] = "slashed"}
Live == DOMAIN market.proposals

SettleCase(m, id) ==
    IF id \notin DOMAIN m.proposals THEN "none"
    ELSE IF id \notin DOMAIN m.states
    THEN IF m.epoch >= m.proposals[id].start_epoch THEN "slash" ELSE "early"
    ELSE IF m.epoch >= m.proposals[id].end_epoch THEN "end" ELSE "pay"

\* The case of the i-th id of a batch settled from the state m: an id that
\* came earlier in the batch and was deleted then is not found now.
BatchCase(m, ids, i) ==
    LET first == SettleCase(m, ids[i])
    IN  IF \E j \in 1..(i - 1) : ids[j] = ids[i]
        THEN IF first \in {"pay", "early"} THEN first ELSE "none"
        ELSE first

ActivationBarred(m, id) ==
    \/ id \notin Published
    \/ id \notin DOMAIN m.proposals
    \/ m.proposals[id].provider # "PROVIDER"
    \/ id \in DOMAIN m.states
    \/ m.epoch > m.proposals[id].start_epoch

\* C29: BatchActivateDeals called by an actor that is no miner aborts with
\* USR_FORBIDDEN and changes nothing. Called by a miner it answers every
\* sector: the sector fails, and its deal is left as it was, when the deal
\* is of another provider, was never published, is already activated, was
\* deleted or has its start epoch behind it; otherwise the deal is activated
\* by the first sector that names it and by no later one, so that no deal
\* state is ever written twice.
C29_ActivationFailures ==
    [][market_log'.op = "activate" =>
          IF market_log'.type # "Miner"
          THEN market_log'.abort = "USR_FORBIDDEN" /\ market' = market
          ELSE LET ids == market_log'.ids
                   codes == market_log'.codes
               IN  /\ market_log'.abort = "none"
                   /\ Len(codes) = Len(ids)
                   /\ \A i \in DOMAIN ids :
                         codes[i] = "OK" <=>
                            /\ ~ActivationBarred(market, ids[i])
                            /\ \A j \in 1..(i - 1) : ids[j] # ids[i]
                   /\ \A id \in DOMAIN market.states :
                         /\ id \in DOMAIN market'.states
                         /\ market'.states[id] = market.states[id]
                   /\ \A id \in DOMAIN market'.states \ DOMAIN market.states :
                         /\ \E i \in DOMAIN ids : ids[i] = id /\ codes[i] = "OK"
                         /\ ~ActivationBarred(market, id)
                   /\ market'.proposals = market.proposals
                   /\ market'.escrow = market.escrow
                   /\ market'.locked = market.locked]_vars

\* Two sectors with the same deal: the first activates it, the second fails.
C29_Witness ==
    /\ market_log.op = "activate"
    /\ market_log.type = "Miner"
    /\ market_log.abort = "none"
    /\ Len(market_log.ids) = 2
    /\ market_log.ids[1] = market_log.ids[2]
    /\ market_log.codes[1] = "OK"
    /\ market_log.codes[2] # "OK"
    /\ market_log.ids[1] \in DOMAIN market.states


\* ---------------------------------------------------------- partition calls

\* The sector sets the calls are made with: the sets of the tests (1 and 2
\* terminated, 4 and 5 faulty, 1 to 5 skipped), the late sector alone and
\* with a test sector, and a set that reaches outside every partition.
SectorSets ==
    {{}, {3}, {1, 2}, {4, 5}, {1, 2, 3, 4, 5}, {4, 5, 6}, {6, 7}, {7}, 5..8}

PartitionOnly ==
    UNCHANGED <<bytecode, pc, reverted, stack, memory, output_data, return_data,
                selfdestroyed, ctl, result, last, steps, address, addr_last, precompile,
                market, market_log, reward, reward_log, bundler>>

AddSectors ==
    /\ LateSectors \cap partition.sectors = {}
    /\ \E proven \in BOOLEAN :
          partition' = Partition_add_sectors(partition, proven, LateSectors)
    /\ partition_last' = [op |-> "add_sectors"]
    /\ PartitionOnly

TerminateSectors ==
    /\ \E S \in SectorSets :
          partition' = Partition_terminate_sectors(partition, S).p
    /\ partition_last' = [op |-> "terminate_sectors"]
    /\ PartitionOnly

RecordFaults ==
    /\ \E S \in SectorSets :
          partition' = Partition_record_faults(partition, S).p
    /\ partition_last' = [op |-> "record_faults"]
    /\ PartitionOnly

DeclareFaultsRecovered ==
    /\ \E S \in SectorSets :
          partition' = Partition_declare_faults_recovered(partition, S).p
    /\ partition_last' = [op |-> "declare_faults_recovered"]
    /\ PartitionOnly

RecordSkippedFaults ==
    /\ \E skipped \in SectorSets :
          LET r == Partition_record_skipped_faults(partition, skipped)
          IN  /\ partition' = r.p
              /\ partition_last' = [op |-> "record_skipped_faults",
                                    skipped |-> skipped, ret |-> r.ret]
    /\ PartitionOnly

NextPartition ==
    \/ AddSectors
    \/ TerminateSectors
    \/ RecordFaults
    \/ DeclareFaultsRecovered
    \/ RecordSkippedFaults

SpecPartition == InitWith({<<>>}, {<<>>}) /\ [][NextPartition]_vars

\* --------------------------------------------------------- partition claims

\* What C30 says of a call with sectors skipped, but for the power delta:
\* a skipped sector outside the partition is USR_ILLEGAL_ARGUMENT and changes
\* nothing; otherwise the new faults are the skipped sectors that were
\* neither faulty nor terminated, new_fault_power is their power, nothing is
\* retracted when no skipped sector was recovering, the faults are the old
\* and the new ones, and the sectors and the terminated sectors are as before.
SkippedFaultsRecorded(delta(_)) ==
    partition_last'.op = "record_skipped_faults" /\ partition_last'.skipped # {} =>
        LET skipped == partition_last'.skipped
            ret == partition_last'.ret
            new_faults == skipped \ (partition.faults \cup partition.terminated)
        IN  IF ~(skipped \subseteq partition.sectors)
            THEN ret = Err("USR_ILLEGAL_ARGUMENT") /\ partition' = partition
            ELSE /\ ret.ok
                 /\ ret.v.has_new_faults = (new_faults # {})
                 /\ ret.v.new_fault_power = power_for_sectors(new_faults)
                 /\ ret.v.power_delta = delta(new_faults)
                 /\ skipped \cap partition.recoveries = {} =>
                       ret.v.retracted_recovery_power = PowerPair_zero
                 /\ partition'.faults = partition.faults \cup new_faults
                 /\ partition'.sectors = partition.sectors
                 /\ partition'.terminated = partition.terminated

NegatedPower(new_faults) == PowerPair_neg(power_for_sectors(new_faults))
ProvenPowerLost(new_faults) ==
    PowerPair_neg(power_for_sectors(new_faults \ partition.unproven))

C31_SendAfterValidation ==
    precompile.op = "call_actor" =>
        /\ ~precompile.ret.ok =>
              /\ precompile.ret.kind \in {"CallForbidden", "InvalidInput",
                                          "CallActorError(StaticModeViolation)"}
              /\ precompile.sent = None
        /\ precompile.ret.ok => precompile.sent.some
        /\ precompile.sent.some =>
              /\ ReachesCodec
              /\ InputParam(precompile.input, 3, 8).v = <<DAG_CBOR>>
              /\ InputParam(precompile.input, 4, 4).ok
              /\ InputParam(precompile.input, 5, 4).ok
              /\ FilecoinAddress_from_bytes(AddressBytes(precompile.input)).ok
              /\ precompile.sent.v.to =
                    FilecoinAddress_from_bytes(AddressBytes(precompile.input)).v
              /\ precompile.sent.v.method = InputParam(precompile.input, 0, 8).v
              /\ precompile.sent.v.flags = DecodedFlags(precompile.input).v
              /\ precompile.chunks_read = CallActorParams

\* A delegate call that passes every check but the last: its address bytes
\* are no address, and nothing was sent.
C31_Witness ==
    /\ ReachesCodec
    /\ InputParam(precompile.input, 3, 8).v = <<DAG_CBOR>>
    /\ InputParam(precompile.input, 4, 4).ok
    /\ InputParam(precompile.input, 5, 4).ok
    /\ AddressBytes(precompile.input) = <<9, 9>>
    /\ precompile.chunks_read = CallActorParams
    /\ precompile.ret = Err("InvalidInput")
    /\ precompile.sent = None


\* A step of RETURNDATACOPY with its three operands on the stack that fails.
CopyFails ==
    /\ Fetched("RETURNDATACOPY")
    /\ Len(stack) >= 3
    /\ ctl' = "done"
    /\ result'.tag = "Err"

\* C32: RETURNDATACOPY asks for its destination region, growing the memory
\* for it, before it looks at the source range. When the destination is
\* refused the memory is what it was. When the destination is granted and
\* the source range is out of bounds, the step fails with
\* IllegalMemoryAccess, every byte that was in memory is what it was, the
\* memory has grown to hold the destination with zero bytes only, so no byte
\* of return data was copied, and return_data is unchanged.
C32_GrowthBeforeSourceCheck ==
    [][CopyFails =>
          LET region == get_memory_region(memory, Top(0), Top(2))
          IN  /\ result' = [tag |-> "Err", kind |-> "IllegalMemoryAccess"]
              /\ return_data' = return_data
              /\ ~region.ok => memory' = memory
              /\ region.ok =>
                    /\ SourceOutOfBounds(return_data, Top(1), Top(2))
                    /\ memory' = region.v.mem
                    /\ Len(memory') >= Len(memory)
                    /\ SubSeq(memory', 1, Len(memory)) = memory
                    /\ \A i \in (Len(memory) + 1)..Len(memory') : memory'[i] = 0
                    /\ region.v.region.some =>
                          Len(memory') >= region.v.region.v.offset
                                             + region.v.region.v.size]_vars

\* A copy to the end of a memory that holds a stored byte, from a source
\* range past the return data: the copy failed and the memory has grown.
C32_Witness ==
    /\ last.op = "RETURNDATACOPY"
    /\ Len(last.stack) = 3
    /\ result = [tag |-> "Err", kind |-> "IllegalMemoryAccess"]
    /\ Len(last.memory) > 0
    /\ \E i \in DOMAIN last.memory : last.memory[i] # 0
    /\ Len(memory) > Len(last.memory)
    /\ SubSeq(memory, 1, Len(last.memory)) = last.memory


\* Machine::execute runs on until it returns: the loop is sequential code
\* that nothing suspends.
SpecRun == Spec /\ WF_vars(Next)

\* The loop of Machine::execute runs step() once.
LoopStep ==
    /\ ctl = "run"
    /\ pc < Len(Code)
    /\ steps' # steps

\* The state a taken jump leaves.
JumpTaken == steps.jumped /\ steps.n = 0

\* The run has come to an instruction whose body is outside the model: an
\* intrinsic that is not under instructions/control.rs, or a PUSH or PC onto
\* a stack of MaxStack words.
Unmodelled ==
    /\ ctl = "run"
    /\ pc < Len(Code)
    /\ \/ Handler(Code[pc + 1]) = "intrinsic"
       \/ Handler(Code[pc + 1]) \in {"PUSH", "PC"} /\ Len(stack) >= MaxStack

\* C33: a step of the loop fails, exits, is a taken jump, or continues, and a
\* step that continues strictly increases the program counter. So the steps
\* since the last taken jump, which are all the steps of a run that took no
\* jump, never number more than the bytes of the code, and a run ends unless
\* it takes jumps again and again (or comes to an instruction outside the
\* model): the loop has no other budget.
C33_ProgressOrJump ==
    /\ [][LoopStep =>
             /\ last'.flow \in {"Err", "Exit", "Jump", "Continue"}
             /\ last'.flow = "Err" <=> ctl' = "done" /\ result'.tag = "Err"
             /\ last'.flow = "Exit" <=> ctl' = "exit"
             /\ last'.flow = "Jump" =>
                   last'.op \in {"JUMP", "JUMPI"} /\ steps'.jumped /\ steps'.n = 0
             /\ last'.flow # "Jump" =>
                   steps'.n = steps.n + 1 /\ steps'.jumped = steps.jumped
             /\ last'.flow = "Continue" => pc' > pc]_vars
    /\ [](steps.n <= Len(Code))
    /\ (<>(ctl = "done" \/ Unmodelled) \/ []<>JumpTaken)

\* A run of three instructions that took no jump, the last one a JUMPI
\* whose condition was zero: it went on to the end of the code.
C33_Witness ==
    /\ ctl = "done"
    /\ result.tag = "Ok"
    /\ last.op = "JUMPI"
    /\ last.flow = "Continue"
    /\ pc = last.pc + 1
    /\ ~steps.jumped
    /\ steps.n = 3
    /\ Len(Code) >= 3


\* ------------------------------------------------------------ reward actor

\* fil_actors_runtime::EXPECTED_LEADERS_PER_EPOCH
EXPECTED_LEADERS_PER_EPOCH == 5

\* PenaltyMultiplier is the factor miner penalties are scaled up by.
PENALTY_MULTIPLIER == 3

\* actor_error!(code, message)
ActorError(code, why) == [ok |-> FALSE, kind |-> code, why |-> why]

\* rt.resolve_address: the miner actor has an id address, a stranger has none.
rt_resolve_address(addr) == IF addr = "MINER" THEN Some("MINER_ID") ELSE None

\* The entry checks without the comparison of the balance with the gas reward.
award_block_reward_validate_NoBalanceCheck(rt, params) ==
    IF rt.caller # "SYSTEM_ACTOR"
    THEN ActorError("forbidden", "caller not allowed")
    ELSE IF params.penalty < 0
    THEN ActorError("illegal_argument", "negative penalty")
    ELSE IF params.gas_reward < 0
    THEN ActorError("illegal_argument", "negative gas reward")
    ELSE IF params.win_count <= 0
    THEN ActorError("illegal_argument", "invalid win count")
    ELSE LET miner_id == rt_resolve_address(params.miner)
         IN  IF ~miner_id.some
             THEN ActorError("not_found", "failed to resolve given owner address")
             ELSE Ok(miner_id.v)

\* award_block_reward, the checks on entry: the caller, the parameters, the
\* balance against the gas reward, and the miner's address. rt.balance is
\* prior_balance.
award_block_reward_validate(rt, params) ==
    IF rt.caller # "SYSTEM_ACTOR"
    THEN ActorError("forbidden", "caller not allowed")
    ELSE IF params.penalty < 0
    THEN ActorError("illegal_argument", "negative penalty")
    ELSE IF params.gas_reward < 0
    THEN ActorError("illegal_argument", "negative gas reward")
    ELSE IF rt.balance < params.gas_reward
    THEN ActorError("illegal_state", "balance insufficient to pay gas reward")
    ELSE IF params.win_count <= 0
    THEN ActorError("illegal_argument", "invalid win count")
    ELSE LET miner_id == rt_resolve_address(params.miner)
         IN  IF ~miner_id.some
             THEN ActorError("not_found", "failed to resolve given owner address")
             ELSE Ok(miner_id.v)

\* The epoch block reward of the winner, before it is capped.
expected_block_reward(st, params) ==
    (st.this_epoch_reward * params.win_count) \div EXPECTED_LEADERS_PER_EPOCH

\* A transaction that rounds the block reward up.
award_block_reward_transaction_RoundsUp(st, params, curr_balance) ==
    LET block_reward ==
            (st.this_epoch_reward * params.win_count
                 + EXPECTED_LEADERS_PER_EPOCH - 1) \div EXPECTED_LEADERS_PER_EPOCH
        total_reward == params.gas_reward + block_reward
    IN  IF total_reward > curr_balance
        THEN LET capped == curr_balance - params.gas_reward
             IN  IF capped < 0
                 THEN ActorError("illegal_state",
                                 "programming error, block reward below zero")
                 ELSE Ok([st |-> [st EXCEPT !.total_storage_power_reward =
                                                @ + capped],
                          total_reward |-> curr_balance])
        ELSE Ok([st |-> [st EXCEPT !.total_storage_power_reward = @ + block_reward],
                 total_reward |-> total_reward])

\* A transaction that adds the whole reward, gas reward included, to
\* total_storage_power_reward.
award_block_reward_transaction_CountsGas(st, params, curr_balance) ==
    LET block_reward == expected_block_reward(st, params)
        total_reward == params.gas_reward + block_reward
    IN  IF total_reward > curr_balance
        THEN LET capped == curr_balance - params.gas_reward
             IN  IF capped < 0
                 THEN ActorError("illegal_state",
                                 "programming error, block reward below zero")
                 ELSE Ok([st |-> [st EXCEPT !.total_storage_power_reward =
                                                @ + curr_balance],
                          total_reward |-> curr_balance])
        ELSE Ok([st |-> [st EXCEPT !.total_storage_power_reward = @ + total_reward],
                 total_reward |-> total_reward])

\* award_block_reward, the closure of rt.transaction: the state it leaves and
\* the total reward it returns, or the error that discards the state.
award_block_reward_transaction(st, params, curr_balance) ==
    LET block_reward == expected_block_reward(st, params)
        total_reward == params.gas_reward + block_reward
    IN  IF total_reward > curr_balance
        THEN LET capped == curr_balance - params.gas_reward
             IN  IF capped < 0
                 THEN ActorError("illegal_state",
                                 "programming error, block reward below zero")
                 ELSE Ok([st |-> [st EXCEPT !.total_storage_power_reward =
                                                @ + capped],
                          total_reward |-> curr_balance])
        ELSE Ok([st |-> [st EXCEPT !.total_storage_power_reward = @ + block_reward],
                 total_reward |-> total_reward])

\* A message of rt.send and whether it went through.
Message(to, method, params, value, went) ==
    [to |-> to, method |-> method, params |-> params, value |-> value,
     ok |-> went]

ApplyRewards(rt, miner_id, total_reward, penalty) ==
    Message(miner_id, "ApplyRewards",
            [reward |-> total_reward, penalty |-> penalty], total_reward,
            rt.miner_send_ok)

\* Sends that leave a reward the miner refused in the reward actor.
award_block_reward_send_NoBurn(rt, miner_id, total_reward, penalty) ==
    <<ApplyRewards(rt, miner_id, total_reward, penalty)>>

\* award_block_reward, the sends: to the miner, and to the burnt funds actor
\* when that send fails.
award_block_reward_send(rt, miner_id, total_reward, penalty) ==
    IF rt.miner_send_ok
    THEN <<ApplyRewards(rt, miner_id, total_reward, penalty)>>
    ELSE <<ApplyRewards(rt, miner_id, total_reward, penalty),
           Message("BURNT_FUNDS_ACTOR", "Send", "none", total_reward,
                   rt.burn_send_ok)>>

\* Actor::award_block_reward: what it returns, the State it leaves (the State
\* of a call that aborts is rolled back) and the messages it sent. Both reads
\* of rt.current_balance() return rt.balance: nothing is sent between them.
award_block_reward(rt, st, params) ==
    LET checked == award_block_reward_validate(rt, params)
    IN  IF ~checked.ok THEN [ret |-> checked, st |-> st, sends |-> <<>>]
        ELSE
        LET penalty == params.penalty * PENALTY_MULTIPLIER
            prior_balance == rt.balance
            t == award_block_reward_transaction(st, params, rt.balance)
        IN  IF ~t.ok THEN [ret |-> t, st |-> st, sends |-> <<>>]
            ELSE IF t.v.total_reward > prior_balance
            THEN [ret |-> ActorError("illegal_state", "reward exceeds balance"),
                  st |-> st, sends |-> <<>>]
            ELSE [ret |-> Ok("unit"), st |-> t.v.st,
                  sends |-> award_block_reward_send(rt, checked.v,
                                                    t.v.total_reward, penalty)]

\* The value of the messages that went through.
RECURSIVE ValueSent(_)
ValueSent(sends) ==
    IF sends = <<>> THEN 0
    ELSE (IF Head(sends).ok THEN Head(sends).value ELSE 0) + ValueSent(Tail(sends))

\* ------------------------------------------------------------ reward calls

\* The funds the reward actor holds and has awarded never exceed this when it
\* receives funds.
MaxFunds == 4
\* State.total_storage_power_reward is counted up to this.
MaxAwarded == 6
\* State.this_epoch_reward is one of these.
EpochRewards == {0, 7, 12}
RewardCallers == {"SYSTEM_ACTOR", "MINER"}
AwardBlockRewardParams ==
    [miner : {"MINER", "STRANGER"}, penalty : {-1, 1},
     gas_reward : {-1, 0, 2}, win_count : {0, 1, 2}]
\* What becomes of the sends: the miner takes the reward, or the burnt funds
\* actor does, or neither.
SendOutcomes ==
    {[miner_send_ok |-> TRUE, burn_send_ok |-> TRUE],
     [miner_send_ok |-> FALSE, burn_send_ok |-> TRUE],
     [miner_send_ok |-> FALSE, burn_send_ok |-> FALSE]}

RewardOnly ==
    UNCHANGED <<bytecode, pc, reverted, stack, memory, output_data, return_data,
                selfdestroyed, ctl, result, last, steps, address, addr_last,
                precompile, market, market_log, partition, partition_last,
                bundler>>

\* The reward actor receives funds: the reserve, or the value sent with a
\* message, such as the gas reward of a block.
ReceiveFunds ==
    /\ \E value \in 1..MaxFunds :
          /\ reward.balance + reward.st.total_storage_power_reward + value
                <= MaxFunds
          /\ reward' = [reward EXCEPT !.balance = @ + value]
    /\ reward_log' = [op |-> "none"]
    /\ RewardOnly

\* Actor::update_network_kpi leaves a new this_epoch_reward.
UpdateNetworkKPI ==
    /\ \E r \in EpochRewards \ {reward.st.this_epoch_reward} :
          reward' = [reward EXCEPT !.st.this_epoch_reward = r]
    /\ reward_log' = [op |-> "none"]
    /\ RewardOnly

AwardBlockReward ==
    /\ \E caller \in RewardCallers, params \in AwardBlockRewardParams,
          sent \in SendOutcomes :
          LET rt == [caller |-> caller, balance |-> reward.balance,
                     miner_send_ok |-> sent.miner_send_ok,
                     burn_send_ok |-> sent.burn_send_ok]
              r == award_block_reward(rt, reward.st, params)
          IN  /\ r.st.total_storage_power_reward <= MaxAwarded
              /\ reward' = [balance |-> reward.balance - ValueSent(r.sends),
                            st |-> r.st]
              /\ reward_log' = [op |-> "award_block_reward", caller |-> caller,
                                params |-> params, prior |-> reward,
                                ret |-> r.ret, sends |-> r.sends]
    /\ RewardOnly

NextReward ==
    \/ ReceiveFunds
    \/ UpdateNetworkKPI
    \/ AwardBlockReward

SpecReward == InitWith({<<>>}, {<<>>}) /\ [][NextReward]_vars


\* ----------------------------------------------------------- reward claims

Awarded == reward_log.op = "award_block_reward"

\* The reward the call was to pay before the cap: the gas reward and the
\* winner's share of the epoch reward, rounded down.
ExpectedReward ==
    reward_log.params.gas_reward
        + (reward_log.prior.st.this_epoch_reward * reward_log.params.win_count)
              \div EXPECTED_LEADERS_PER_EPOCH

\* The call got past the checks on entry.
Admitted ==
    /\ Awarded
    /\ reward_log.caller = "SYSTEM_ACTOR"
    /\ reward_log.params.penalty >= 0
    /\ reward_log.params.gas_reward >= 0
    /\ reward_log.prior.balance >= reward_log.params.gas_reward
    /\ reward_log.params.win_count > 0
    /\ reward_log.params.miner = "MINER"

\* C34: a call that returns Ok has sent ApplyRewards to the miner with the
\* total reward as its value. When that send went through it is the only
\* send. When it failed, a plain Send of the same value to the burnt funds
\* actor follows, and the call returns Ok whether or not that one went
\* through. At most one send goes through, so the balance falls by the total
\* reward or not at all. A call that returns an error has sent nothing.
C34_BurnOnMinerFailure ==
    Awarded =>
        LET sends == reward_log.sends
        IN  /\ ~reward_log.ret.ok => sends = <<>> /\ reward = reward_log.prior
            /\ reward_log.ret.ok =>
                  /\ Len(sends) \in {1, 2}
                  /\ sends[1].to = "MINER_ID"
                  /\ sends[1].method = "ApplyRewards"
                  /\ sends[1].params.reward = sends[1].value
                  /\ sends[1].params.penalty =
                        reward_log.params.penalty * PENALTY_MULTIPLIER
                  /\ sends[1].ok <=> Len(sends) = 1
                  /\ Len(sends) = 2 =>
                        /\ sends[2].to = "BURNT_FUNDS_ACTOR"
                        /\ sends[2].method = "Send"
                        /\ sends[2].value = sends[1].value
                  /\ Cardinality({i \in DOMAIN sends : sends[i].ok}) <= 1
                  /\ reward.balance \in
                        {reward_log.prior.balance,
                         reward_log.prior.balance - sends[1].value}
                  /\ (\E i \in DOMAIN sends : sends[i].ok) =>
                        reward.balance = reward_log.prior.balance - sends[1].value

\* The miner refused a reward and the burnt funds actor refused it too: the
\* call returned Ok and the reward is still in the actor.
C34_Witness ==
    /\ Awarded
    /\ reward_log.ret.ok
    /\ Len(reward_log.sends) = 2
    /\ ~reward_log.sends[1].ok
    /\ ~reward_log.sends[2].ok
    /\ reward_log.sends[2].value > 0
    /\ reward.balance = reward_log.prior.balance

\* C35: a call that gets past the checks on entry returns Ok, and every
\* message it sends carries the expected reward or, when that is more than
\* the balance, the balance: never more than the balance at entry, so the
\* balance it leaves is not negative.
C35_RewardCappedAtBalance ==
    /\ reward.balance >= 0
    /\ Admitted =>
          /\ reward_log.ret.ok
          /\ reward_log.sends # <<>>
          /\ \A i \in DOMAIN reward_log.sends :
                /\ reward_log.sends[i].value
                      = Min(ExpectedReward, reward_log.prior.balance)
                /\ reward_log.sends[i].value <= reward_log.prior.balance
                /\ reward_log.sends[i].value >= 0
    /\ Awarded /\ ~Admitted => reward_log.sends = <<>>

\* A reward that was rounded down and then cut to the balance, which the
\* miner took: the actor is left with nothing.
C35_Witness ==
    /\ Admitted
    /\ (reward_log.prior.st.this_epoch_reward * reward_log.params.win_count)
           % EXPECTED_LEADERS_PER_EPOCH # 0
    /\ ExpectedReward > reward_log.prior.balance
    /\ reward_log.prior.balance > reward_log.params.gas_reward
    /\ reward_log.params.gas_reward > 0
    /\ reward_log.sends[1].ok
    /\ reward_log.sends[1].value = reward_log.prior.balance
    /\ reward.balance = 0

\* The errors of the checks on entry.
ValidationErrors ==
    {ActorError("forbidden", "caller not allowed"),
     ActorError("illegal_argument", "negative penalty"),
     ActorError("illegal_argument", "negative gas reward"),
     ActorError("illegal_state", "balance insufficient to pay gas reward"),
     ActorError("illegal_argument", "invalid win count"),
     ActorError("not_found", "failed to resolve given owner address")}

\* C36: a call that returns Ok adds to total_storage_power_reward the total
\* reward it sent less the gas reward, which is not negative, and leaves the
\* rest of the State alone; a call that fails a check on entry returns that
\* check's error, leaves the State and the balance alone and sends nothing;
\* and no step of any kind lowers total_storage_power_reward.
C36_PowerRewardGrows ==
    /\ [](Awarded /\ reward_log.ret.ok =>
             LET paid == reward_log.sends[1].value
                             - reward_log.params.gas_reward
             IN  /\ paid >= 0
                 /\ reward.st =
                       [reward_log.prior.st EXCEPT
                           !.total_storage_power_reward = @ + paid])
    /\ [](Awarded /\ ~Admitted =>
             /\ reward_log.ret \in ValidationErrors
             /\ reward = reward_log.prior
             /\ reward_log.sends = <<>>)
    /\ [](Admitted => reward_log.ret \notin ValidationErrors)
    /\ [][reward'.st.total_storage_power_reward
             >= reward.st.total_storage_power_reward]_vars

\* A call with a gas reward that paid out a block reward on top of it.
C36_Witness ==
    /\ Awarded
    /\ reward_log.ret.ok
    /\ reward_log.params.gas_reward > 0
    /\ reward_log.sends[1].value > reward_log.params.gas_reward
    /\ reward_log.prior.st.total_storage_power_reward > 0
    /\ reward.st.total_storage_power_reward
          > reward_log.prior.st.total_storage_power_reward

\* C38: both reads of the balance in a call return the same balance, and no
\* call returns "programming error, block reward below zero" or "reward
\* exceeds balance": a call that gets past the checks on entry returns Ok,
\* with a reward cut to the balance when the expected one is more.
C38_IllegalStatesUnreachable ==
    Awarded =>
        /\ ~reward_log.ret.ok =>
              reward_log.ret.why \notin
                  {"programming error, block reward below zero",
                   "reward exceeds balance"}
        /\ ~reward_log.ret.ok => reward_log.ret \in ValidationErrors
        /\ reward_log.ret.ok => reward_log.sends[1].value <= reward_log.prior.balance

\* The balance is exactly the gas reward, and the epoch reward is more than
\* nothing: the block reward is cut to zero, not below, and the call is Ok.
C38_Witness ==
    /\ Admitted
    /\ reward_log.ret.ok
    /\ reward_log.params.gas_reward > 0
    /\ reward_log.prior.balance = reward_log.params.gas_reward
    /\ ExpectedReward > reward_log.prior.balance
    /\ reward_log.sends[1].value = reward_log.params.gas_reward
    /\ reward.st = reward_log.prior.st


\* ------------------------------------------------------------------ bundler

\* `bounded(16)`
ChannelCapacity == 16

\* The CID of the root block, the index; the CIDs of bytecode are 1 and up.
RootCid == 0

\* The elements of a set of CIDs in the order of a BTreeMap's keys.
RECURSIVE InOrder(_)
InOrder(S) ==
    IF S = {} THEN <<>>
    ELSE LET least == CHOOSE c \in S : \A d \in S : c <= d
         IN  <<least>> \o InOrder(S \ {least})

\* Bundler::add_from_bytes: `self.added.insert(actor_type, cid)`. The actors
\* are added in the order of their types, so `added` is a sequence.
add_from_bytes(b, cid) == [b EXCEPT !.added = Append(@, cid)]

\* write_car up to task::spawn: the index inverted (one entry for each CID),
\* the channel made and the writer task started.
write_car_begin(b) ==
    [b EXCEPT !.phase = "sending",
              !.index = InOrder({b.added[i] : i \in DOMAIN b.added}),
              !.next = 0,
              !.channel = <<>>,
              !.tx = "open",
              !.write_task = "running"]

\* The block the producer sends next: the root payload, then the bytecodes
\* in the order of the index.
next_block(b) == IF b.next = 0 THEN RootCid ELSE b.index[b.next]

\* There is a block left to send.
sending(b) == b.phase = "sending" /\ b.next <= Len(b.index)

\* `tx.send(..).await`: completes when the channel has room.
tx_send(b) ==
    [b EXCEPT !.channel = Append(@, next_block(b)),
              !.sent = Append(@, next_block(b)),
              !.next = @ + 1]

\* write_car that goes on to `write_task.await` with the sender alive.
drop_tx_Forgotten(b) == [b EXCEPT !.phase = "awaiting"]

\* `drop(tx)`, and on to `write_task.await`.
drop_tx(b) == [b EXCEPT !.tx = "dropped", !.phase = "awaiting"]

\* What the writer's `rx.next().await` comes to: a block, the end of the
\* stream once every sender is dropped and the channel is empty, or a wait.
rx_next(b) ==
    IF b.channel # <<>> THEN "block"
    ELSE IF b.tx = "dropped" THEN "end"
    ELSE "pending"

\* ------------------------------------------------------------ bundler calls

\* The most actors added to a Bundler.
MaxActors == 18
\* The first actors may be added with a forced CID, these.
MaxForced == 2
ForcedCids == {1, 99}

BundlerOnly ==
    UNCHANGED <<bytecode, pc, reverted, stack, memory, output_data, return_data,
                selfdestroyed, ctl, result, last, steps, address, addr_last,
                precompile, market, market_log, partition, partition_last,
                reward, reward_log>>

\* Bundler::add_from_bytes with the bytecode's own CID, or with a forced one.
AddFromBytes ==
    /\ bundler.phase = "adding"
    /\ Len(bundler.added) < MaxActors
    /\ LET actor_type == Len(bundler.added) + 1
       IN  \E cid \in {actor_type}
                        \cup (IF actor_type <= MaxForced THEN ForcedCids ELSE {}) :
              bundler' = add_from_bytes(bundler, cid)
    /\ BundlerOnly

\* Bundler::finish: block_on(self.write_car()), as far as the spawn.
Finish ==
    /\ bundler.phase = "adding"
    /\ bundler' = write_car_begin(bundler)
    /\ BundlerOnly

\* The producer sends a block, when the channel has room for it.
Send ==
    /\ sending(bundler)
    /\ Len(bundler.channel) < ChannelCapacity
    /\ bundler' = tx_send(bundler)
    /\ BundlerOnly

\* The producer has sent every block.
DropSender ==
    /\ bundler.phase = "sending"
    /\ ~sending(bundler)
    /\ bundler' = drop_tx(bundler)
    /\ BundlerOnly

\* The writer task takes a block from the channel and writes it.
Receive ==
    /\ bundler.write_task = "running"
    /\ rx_next(bundler) = "block"
    /\ bundler' = [bundler EXCEPT !.channel = Tail(@),
                                  !.received = Append(@, Head(bundler.channel))]
    /\ BundlerOnly

\* The writer task finds the stream at its end and returns.
WriterEnds ==
    /\ bundler.write_task = "running"
    /\ rx_next(bundler) = "end"
    /\ bundler' = [bundler EXCEPT !.write_task = "done"]
    /\ BundlerOnly

\* `write_task.await` completes and write_car returns Ok(()).
Return ==
    /\ bundler.phase = "awaiting"
    /\ bundler.write_task = "done"
    /\ bundler' = [bundler EXCEPT !.phase = "returned"]
    /\ BundlerOnly

\* The steps of the two tasks of write_car.
NextTasks ==
    \/ Send
    \/ DropSender
    \/ Receive
    \/ WriterEnds
    \/ Return

NextBundler ==
    \/ AddFromBytes
    \/ Finish
    \/ Send
    \/ DropSender
    \/ Receive
    \/ WriterEnds
    \/ Return

\* block_on polls write_car and the executor of task::spawn polls the writer
\* task: a task that can take a step takes it.
SpecBundler ==
    /\ InitWith({<<>>}, {<<>>})
    /\ [][NextBundler]_vars
    /\ WF_vars(Send)
    /\ WF_vars(DropSender)
    /\ WF_vars(Receive)
    /\ WF_vars(WriterEnds)
    /\ WF_vars(Return)

\* ----------------------------------------------------------- bundler claims

\* The blocks of the bundle: the root and one block for each CID added.
AllBlocks == <<RootCid>> \o InOrder({bundler.added[i] : i \in DOMAIN bundler.added})

====
